---------------------------- MODULE Spec2Model ----------------------------
(***************************************************************************)
(* A model of AggreBench's QA generation-and-validation core:              *)
(*   - QACacheManager (src/src/utils/cache_manager.py): add_qa,            *)
(*     save_cache, load_cache, get_exportable_qas;                         *)
(*   - QuestionGenerator.batch_generate / _generate_single_qa and          *)
(*     BatchValidator.validate_qas / validate_and_correct                  *)
(*     (src/src/pipeline/question_generator.py).                           *)
(*                                                                         *)
(* Python values are modelled as follows.  A dict is a record; a key that  *)
(* a dict may lack holds the value Absent.  Timestamps are the naturals    *)
(* (time.strftime("%Y-%m-%dT%H:%M:%S") strings compare in time order); 0   *)
(* stands for a missing timestamp (save_cache's default "").  An evidence  *)
(* list is a record [elem, rows]: elem is the Python type of its entries   *)
(* ("tuple" as built by _parse_llm_response, "list" as read back from      *)
(* JSON), rows the entries.                                                *)
(***************************************************************************)
EXTENDS Integers, Sequences, FiniteSets, TLC

VARIABLES
    questions,   \* cache_data["questions"]: the in-memory list of QA items
    disk,        \* the items of qa_cache.json as last written
    now,         \* the clock read by time.strftime
    call,        \* the arguments of the last add_qa call (qa_data_to_store)
    ret,         \* the value returned by the last add_qa call
    upserted,    \* history: qa_id -> the statuses add_qa was called with
    is_step,     \* the --is_step flag of the process
    dataset,     \* the conversations load_data read from --input_data
    partial,     \* the cache file is open for writing and not yet written
    pc,          \* where main is
    run,         \* the number of processes started on this cache directory
    pair,        \* batch_generate: index of the (conversation, difficulty) pair
    generated_count,  \* batch_generate: generated_count_for_current_difficulty
    invocations, \* history: _generate_single_qa calls made for the pair
    rejected,    \* history: of these, the calls that returned (None, None)
    first_run_exportable,  \* history: exportable items when run 1 finished
                           \* (-1: run 1 has not completed batch_generate)
    to_validate, \* validate_qas: the qa_ids of qas_to_validate
    vi,          \* validate_qas: position of the for loop in qas_to_validate
    model_calls, \* history: qa_ids validate_and_correct called the model for
    derivation,  \* history: the item last given to the model, and the reply
    sql_engine   \* the tables Table_0, Table_1, ... of BatchValidator.sql_engine

clientVars == <<call, upserted>>
envVars == <<is_step, dataset, partial>>
procVars == <<envVars, pc, run>>
genVars == <<pair, generated_count, invocations, rejected, first_run_exportable>>
valVars == <<to_validate, vi, model_calls, derivation, sql_engine>>

vars == <<questions, disk, now, ret, clientVars, procVars, genVars, valVars>>

-----------------------------------------------------------------------------
(* Bounds of the model *)

MaxTime == 2

-----------------------------------------------------------------------------
(* Values *)

Absent == "<absent>"
None == "<None>"

\* The dataset: conversation c1 with a session that carries tables and one
\* that carries none.
Dataset ==
    << [id |-> "c1",
        sessions |-> << [id |-> "s1", tables |-> TRUE],
                        [id |-> "s2", tables |-> FALSE] >>] >>

\* A dataset whose first conversation has fewer sessions than min_sessions.
MixedDataset ==
    << [id |-> "c0",
        sessions |-> << [id |-> "s1", tables |-> TRUE] >>],
       Dataset[1] >>

Statuses == {"generated", "liked", "disliked"}
Difficulties == {"easy", "medium", "hard"}
Texts == {"q1", "q2"}

\* hashlib.md5(question_text).hexdigest(): an injective tag of the text.
generate_qa_id(qa_pair) == "md5:" \o qa_pair.question_text

QaIds == {generate_qa_id([question_text |-> t]) : t \in Texts}

EmptyDict == [sql_status |-> Absent, error |-> Absent]

-----------------------------------------------------------------------------
(* QACacheManager *)

RECURSIVE IndexFrom(_, _, _)
IndexFrom(qs, qa_id, i) ==
    IF i > Len(qs) THEN 0
    ELSE IF qs[i].qa_id = qa_id THEN i
    ELSE IndexFrom(qs, qa_id, i + 1)

\* Mutant: the search loop starts at the second item.
existing_qa_index_from_second(qs, qa_id) == IndexFrom(qs, qa_id, 2)

\* The search loop of add_qa: the first position holding qa_id, 0 for -1.
existing_qa_index(qs, qa_id) == IndexFrom(qs, qa_id, 1)

\* The qa_id add_qa works with: the pair's own, or the generated one.
resolved_qa_id(qa_pair) ==
    IF qa_pair.qa_id = Absent THEN generate_qa_id(qa_pair) ELSE qa_pair.qa_id

\* Mutant: the timestamp is always the time of the call.
qa_data_to_store_fresh_timestamp(qa_pair, status, sql_info, clock) ==
    [qa_id           |-> resolved_qa_id(qa_pair),
     question_text   |-> qa_pair.question_text,
     answer_text     |-> qa_pair.answer_text,
     evidence        |-> qa_pair.evidence,
     conversation_id |-> qa_pair.conversation_id,
     session_ids     |-> qa_pair.session_ids,
     timestamp       |-> clock,
     difficulty      |-> qa_pair.difficulty,
     status          |-> status,
     sql_info        |-> sql_info]

\* The dictionary add_qa builds from the pair (lines 124-135).
qa_data_to_store(qa_pair, status, sql_info, clock) ==
    [qa_id           |-> resolved_qa_id(qa_pair),
     question_text   |-> qa_pair.question_text,
     answer_text     |-> qa_pair.answer_text,
     evidence        |-> qa_pair.evidence,
     conversation_id |-> qa_pair.conversation_id,
     session_ids     |-> qa_pair.session_ids,
     timestamp       |-> IF qa_pair.timestamp = 0 THEN clock ELSE qa_pair.timestamp,
     difficulty      |-> qa_pair.difficulty,
     status          |-> status,
     sql_info        |-> sql_info]

\* Mutant: only a liked item is protected.
keeps_existing_liked_only(current_status, status) ==
    current_status = "liked" /\ status # "liked"

\* The priority test of add_qa: the stored status outranks the incoming one.
keeps_existing(current_status, status) ==
    \/ current_status = "liked" /\ status # "liked"
    \/ current_status = "disliked" /\ status \notin {"liked", "disliked"}

\* Mutant: the update leaves the stored sql_info alone.
dict_update_keeps_sql_info(item, data) ==
    [item EXCEPT !.qa_id = data.qa_id,
                 !.question_text = data.question_text,
                 !.answer_text = data.answer_text,
                 !.evidence = data.evidence,
                 !.conversation_id = data.conversation_id,
                 !.session_ids = data.session_ids,
                 !.timestamp = data.timestamp,
                 !.difficulty = data.difficulty,
                 !.status = data.status]

\* dict.update: the keys of data are overwritten, every other key is kept.
dict_update(item, data) ==
    [item EXCEPT !.qa_id = data.qa_id,
                 !.question_text = data.question_text,
                 !.answer_text = data.answer_text,
                 !.evidence = data.evidence,
                 !.conversation_id = data.conversation_id,
                 !.session_ids = data.session_ids,
                 !.timestamp = data.timestamp,
                 !.difficulty = data.difficulty,
                 !.status = data.status,
                 !.sql_info = data.sql_info]

\* A dict appended by add_qa has the keys of qa_data_to_store and no other.
new_item(data) ==
    [qa_id |-> data.qa_id, question_text |-> data.question_text,
     answer_text |-> data.answer_text, evidence |-> data.evidence,
     conversation_id |-> data.conversation_id, session_ids |-> data.session_ids,
     timestamp |-> data.timestamp, difficulty |-> data.difficulty,
     status |-> data.status, sql_info |-> data.sql_info,
     sql_status |-> Absent]

\* add_qa as a function of the list: the list after the call.
add_qa_list(qs, qa_pair, status, sql_info, clock) ==
    LET data == qa_data_to_store(qa_pair, status, sql_info, clock)
        i == existing_qa_index(qs, data.qa_id)
    IN  IF i # 0
        THEN IF keeps_existing(qs[i].status, status)
             THEN qs
             ELSE [qs EXCEPT ![i] = dict_update(qs[i], data)]
        ELSE Append(qs, new_item(data))

\* add_qa's return value: True for a new addition only.
add_qa_returns(qs, qa_pair) ==
    existing_qa_index(qs, resolved_qa_id(qa_pair)) = 0

difficulty_rank(d) ==
    CASE d = "hard" -> 2
      [] d = "medium" -> 1
      [] d = "easy" -> 0
      [] OTHER -> 3

\* The sort key of save_cache: (difficulty rank, timestamp), compared as tuples.
save_key_le(a, b) ==
    \/ difficulty_rank(a.difficulty) < difficulty_rank(b.difficulty)
    \/ /\ difficulty_rank(a.difficulty) = difficulty_rank(b.difficulty)
       /\ a.timestamp <= b.timestamp

\* Mutant: the export sorts by descending rank.
export_key_le_descending(a, b) ==
    difficulty_rank(a.difficulty) >= difficulty_rank(b.difficulty)

\* The sort key of get_exportable_qas: the difficulty rank alone.
export_key_le(a, b) ==
    difficulty_rank(a.difficulty) <= difficulty_rank(b.difficulty)

\* list.sort / sorted are stable: an item is inserted after every item whose
\* key is not greater than its own.
RECURSIVE InsertByExportKey(_, _)
InsertByExportKey(sorted, x) ==
    IF sorted = <<>> THEN <<x>>
    ELSE IF export_key_le(Head(sorted), x)
         THEN <<Head(sorted)>> \o InsertByExportKey(Tail(sorted), x)
         ELSE <<x>> \o sorted

RECURSIVE SortByExportKey(_, _)
SortByExportKey(qs, acc) ==
    IF qs = <<>> THEN acc
    ELSE SortByExportKey(Tail(qs), InsertByExportKey(acc, Head(qs)))

RECURSIVE InsertBySaveKey(_, _)
InsertBySaveKey(sorted, x) ==
    IF sorted = <<>> THEN <<x>>
    ELSE IF save_key_le(Head(sorted), x)
         THEN <<Head(sorted)>> \o InsertBySaveKey(Tail(sorted), x)
         ELSE <<x>> \o sorted

RECURSIVE SortBySaveKey(_, _)
SortBySaveKey(qs, acc) ==
    IF qs = <<>> THEN acc
    ELSE SortBySaveKey(Tail(qs), InsertBySaveKey(acc, Head(qs)))

\* Mutant: the export forgets the liked items.
is_exportable_generated_only(qa) == qa.status = "generated"

is_exportable(qa) == qa.status \in {"liked", "generated"}

get_exportable_qas(qs) ==
    SortByExportKey(SelectSeq(qs, is_exportable), <<>>)

\* json.dump then json.load of one item: tuples come back as lists.
JsonItem(qa) ==
    [qa EXCEPT !.evidence = [@ EXCEPT !.elem = "list"]]

JsonQuestions(qs) == [i \in 1..Len(qs) |-> JsonItem(qs[i])]

-----------------------------------------------------------------------------
(* The clock: time passes between two reads of time.strftime. *)

Tick ==
    /\ now < MaxTime
    /\ now' = now + 1
    /\ UNCHANGED <<questions, disk, ret, clientVars, procVars, genVars, valVars>>

-----------------------------------------------------------------------------
(* Operations of the cache manager as actions *)

\* One call add_qa(qa_pair, status, sql_info): the list and the return value.
AddQa(qa_pair, status, sql_info) ==
    /\ questions' = add_qa_list(questions, qa_pair, status, sql_info, now)
    /\ ret' = add_qa_returns(questions, qa_pair)

\* save_cache's sort of the list in place.
save_cache_list(qs) == SortBySaveKey(qs, <<>>)

\* One call save_cache(): sort in place, then write the whole file.
SaveCache ==
    /\ questions' = save_cache_list(questions)
    /\ disk' = JsonQuestions(questions')
    /\ UNCHANGED <<now, ret, clientVars, procVars, genVars, valVars>>

NoCall == [n |-> 0]
NoDerivation == [qa_id |-> None]

\* No process of the pipeline is running.
NoProcess ==
    /\ is_step = FALSE
    /\ dataset = Dataset
    /\ partial = FALSE
    /\ pc = "client"
    /\ run = 0
    /\ pair = 0
    /\ generated_count = 0
    /\ invocations = 0
    /\ rejected = 0
    /\ first_run_exportable = -1
    /\ to_validate = <<>>
    /\ vi = 0
    /\ model_calls = {}
    /\ derivation = NoDerivation
    /\ sql_engine = <<>>

NoClient ==
    /\ call = NoCall
    /\ upserted = [id \in QaIds |-> {}]

\* A QACacheManager constructed on an empty cache directory.
InitCache ==
    /\ questions = <<>>
    /\ disk = <<>>
    /\ now = 1
    /\ ret = None
    /\ NoClient
    /\ NoProcess

\* The file holds the in-memory list as it stands.
Persisted == disk = JsonQuestions(questions)

-----------------------------------------------------------------------------
(* SpecUpsert: a client that calls add_qa and save_cache on an empty cache *)
(* in any order, with at most one add_qa since the last save.  Payloads    *)
(* are drawn from two variants that differ in every field; call and        *)
(* upserted record what the client passed.                                 *)

Evidence1 == [elem |-> "tuple", rows |-> <<"r1">>]
Evidence2 == [elem |-> "list", rows |-> <<"r1", "r2">>]

SqlInfos == {EmptyDict, [sql_status |-> "match", error |-> None]}

QaPair(text, id, variant, difficulty, timestamp) ==
    [qa_id           |-> id,
     question_text   |-> text,
     answer_text     |-> IF variant = 1 THEN 5 ELSE 7,
     evidence        |-> IF variant = 1 THEN Evidence1 ELSE Evidence2,
     conversation_id |-> IF variant = 1 THEN "c1" ELSE "c2",
     session_ids     |-> IF variant = 1 THEN <<"s1">> ELSE <<"s1", "s2">>,
     timestamp       |-> timestamp,
     difficulty      |-> difficulty]

\* Variant 1 leaves the timestamp to add_qa, variant 2 brings its own.
UpsertPairs ==
    {QaPair(t, IF given THEN generate_qa_id([question_text |-> t]) ELSE Absent,
            v, IF v = 1 THEN "easy" ELSE "hard", IF v = 1 THEN 0 ELSE 2) :
        t \in Texts, given \in BOOLEAN, v \in {1, 2}}

UpsertCall ==
    \E qa_pair \in UpsertPairs, status \in Statuses, sql_info \in SqlInfos :
        /\ Persisted
        /\ AddQa(qa_pair, status, sql_info)
        /\ call' = [n |-> 1 - call.n,
                    data |-> qa_data_to_store(qa_pair, status, sql_info, now)]
        /\ upserted' = [upserted EXCEPT ![resolved_qa_id(qa_pair)] = @ \cup {status}]
        /\ UNCHANGED <<disk, now, procVars, genVars, valVars>>

NextUpsert == UpsertCall \/ SaveCache

SpecUpsert == InitCache /\ [][NextUpsert]_vars

-----------------------------------------------------------------------------
(* SpecExport: the same client, the payloads ranging over every difficulty *)
(* and over timestamps given by the caller or read from the clock.         *)

ExportPairs ==
    {QaPair(t, Absent, 1, d, ts) :
        t \in Texts, d \in Difficulties, ts \in 0..MaxTime}

ExportCall ==
    \E qa_pair \in ExportPairs, status \in Statuses :
        /\ Persisted
        /\ AddQa(qa_pair, status, EmptyDict)
        /\ UNCHANGED <<disk, now, clientVars, procVars, genVars, valVars>>

NextExport == ExportCall \/ SaveCache \/ Tick

SpecExport == InitCache /\ [][NextExport]_vars

-----------------------------------------------------------------------------
(* The pipeline of question_generator.py: main starts a process on the     *)
(* cache directory, which loads the cache file, runs batch_generate and,   *)
(* with --enable_validation, validate_qas.                                 *)

MaxRuns == 2
MaxTarget == 2
MaxRejected == 1

\* The --min_sessions and --max_sessions of the run.
min_sessions == 2
max_sessions == 2

\* difficulty_counts as main builds it, in the order of its keys.
DifficultyOrder == <<"easy", "medium", "hard">>
difficulty_counts == [easy |-> MaxTarget, medium |-> 1, hard |-> 0]

\* The (conversation, difficulty) pairs in the order of batch_generate's
\* two for loops.
Pairs ==
    [k \in 1..(Len(dataset) * Len(DifficultyOrder)) |->
        [conversation |-> dataset[((k - 1) \div Len(DifficultyOrder)) + 1],
         difficulty |-> DifficultyOrder[((k - 1) % Len(DifficultyOrder)) + 1]]]

\* load_cache: the items of the cache file (an absent file gives no item).
load_cache(file) == file

\* A variant that counts the disliked items as well.
cached_count_any_status(qs, conversation_id, difficulty) ==
    Cardinality({i \in 1..Len(qs) :
        /\ qs[i].difficulty = difficulty
        /\ qs[i].conversation_id = conversation_id})

\* The count batch_generate takes from the cache for a pair.
cached_count(qs, conversation_id, difficulty) ==
    Cardinality({i \in 1..Len(qs) :
        /\ qs[i].difficulty = difficulty
        /\ qs[i].conversation_id = conversation_id
        /\ qs[i].status \in {"liked", "generated"}})

\* random.randint(lo, min(hi, n)): the session counts it may return; none
\* when the range is empty, and randint raises ValueError.
Min(a, b) == IF a <= b THEN a ELSE b

session_counts(n, lo, hi) == lo..Min(hi, n)

\* random.sample of that many of the n sessions: the sets of positions.
samples(n, lo, hi) ==
    {w \in SUBSET (1..n) : Cardinality(w) \in session_counts(n, lo, hi)}

Windows(conversation) ==
    samples(Len(conversation.sessions), min_sessions, max_sessions)

\* selected_sessions.sort(key=lambda s: s.id) and the list of the ids, for
\* sessions that the conversation lists in the order of their ids.
RECURSIVE SortedIds(_, _, _)
SortedIds(conversation, w, i) ==
    IF i > Len(conversation.sessions) THEN <<>>
    ELSE (IF i \in w THEN <<conversation.sessions[i].id>> ELSE <<>>)
             \o SortedIds(conversation, w, i + 1)

\* What the generation client does: it raises, it returns nothing, it
\* returns text that is no JSON object, or a JSON object, of which the
\* model keeps which of the keys question and answer it has, their values
\* and the evidence array.  An evidence entry has a shape and names a row.
RaisingCall == [kind |-> "raises"]
EmptyResponse == [kind |-> "empty"]
UnparsableResponse == [kind |-> "text"]

JsonObject(keys, question, answer, evidence) ==
    [kind |-> "object", keys |-> keys,
     question |-> IF "question" \in keys THEN question ELSE Absent,
     answer |-> IF "answer" \in keys THEN answer ELSE 0,
     evidence |-> evidence]

Entry(shape, row) == [shape |-> shape, row |-> row]

Responses ==
    {RaisingCall, EmptyResponse, UnparsableResponse}
    \cup {JsonObject({"question", "answer"}, text, 5,
                     <<Entry("list5", "r1")>>) : text \in Texts}

\* The reviewer's key in step mode.
Chars == {"y", "n", "r", ""}

\* The evidence loop of _parse_llm_response: a list of five elements and a
\* string that spells one are appended as tuples, any other entry is
\* passed over.
RECURSIVE parsed_evidence(_)
parsed_evidence(raw_evi) ==
    IF raw_evi = <<>> THEN <<>>
    ELSE (IF Head(raw_evi).shape \in {"list5", "str_list5"}
          THEN <<Head(raw_evi).row>> ELSE <<>>)
             \o parsed_evidence(Tail(raw_evi))

\* float(val) of a list entry raises when the value is no number: the
\* outer except clause of _parse_llm_response then returns None.
evidence_raises(raw_evi) ==
    \E k \in 1..Len(raw_evi) : raw_evi[k].shape = "list5_bad_value"

NotParsed == [parsed |-> FALSE]

\* _parse_llm_response: None (NotParsed) unless json.loads gives an object;
\* a missing question is None and a missing answer 0.0 in the dict.
parse_llm_response(response) ==
    IF response.kind # "object" THEN NotParsed
    ELSE IF evidence_raises(response.evidence) THEN NotParsed
    ELSE [parsed        |-> TRUE,
          question_text |-> IF "question" \in response.keys
                            THEN response.question ELSE None,
          answer_text   |-> IF "answer" \in response.keys
                            THEN response.answer ELSE 0,
          evidence      |-> [elem |-> "tuple",
                             rows |-> parsed_evidence(response.evidence)]]

\* qa_dict after the metadata of lines 115-120.
qa_dict(parsed, conversation, w, difficulty, clock) ==
    [qa_id           |-> generate_qa_id(parsed),
     question_text   |-> parsed.question_text,
     answer_text     |-> parsed.answer_text,
     evidence        |-> parsed.evidence,
     conversation_id |-> conversation.id,
     session_ids     |-> SortedIds(conversation, w, 1),
     timestamp       |-> clock,
     difficulty      |-> difficulty]

\* A variant in which the key 'r' commits the item like the Enter key.
commit_status_r_commits(step, char) ==
    IF step
    THEN CASE char = "y" -> "liked"
           [] char = "n" -> "disliked"
           [] OTHER -> "generated"
    ELSE "generated"

\* The status _generate_single_qa commits a parsed item with, Absent when
\* it commits nothing.
commit_status(step, char) ==
    IF step
    THEN CASE char = "y" -> "liked"
           [] char = "n" -> "disliked"
           [] char = "r" -> Absent
           [] OTHER -> "generated"
    ELSE "generated"

\* Whether _generate_single_qa returns the qa_dict (rather than None).
returns_qa(response, step, char) ==
    /\ response.kind # "empty"
    /\ parse_llm_response(response).parsed
    /\ commit_status(step, char) \in {"liked", "generated"}

\* main: QuestionGenerator.__init__ loads the cache file.
StartProcess ==
    /\ pc = "boot"
    /\ run < MaxRuns
    /\ run' = run + 1
    /\ questions' = load_cache(disk)
    /\ pc' = "batch_generate"
    /\ UNCHANGED <<disk, now, ret, clientVars, envVars, genVars, valVars>>

\* batch_generate up to its loops: in step mode the cache is loaded again.
BatchGenerate ==
    /\ pc = "batch_generate"
    /\ questions' = IF is_step THEN load_cache(disk) ELSE questions
    /\ pair' = 1
    /\ pc' = "pair"
    /\ UNCHANGED <<disk, now, ret, clientVars, envVars, run, generated_count,
                   invocations, rejected, first_run_exportable, valVars>>

\* One pass of the inner for loop up to the while loop (lines 54-70).
BeginPair ==
    /\ pc = "pair"
    /\ pair <= Len(Pairs)
    /\ LET target == difficulty_counts[Pairs[pair].difficulty]
           count == cached_count(questions, Pairs[pair].conversation.id,
                                 Pairs[pair].difficulty)
       IN  IF target = 0 \/ count >= target
           THEN /\ pair' = pair + 1
                /\ UNCHANGED <<pc, generated_count, invocations, rejected>>
           ELSE /\ pc' = "loop"
                /\ generated_count' = count
                /\ invocations' = 0
                /\ rejected' = 0
                /\ UNCHANGED pair
    /\ UNCHANGED <<questions, disk, now, ret, clientVars, envVars, run,
                   first_run_exportable, valVars>>

\* One pass of the while loop: a call of _generate_single_qa and the count.
\* The value add_qa returns is dropped by _generate_single_qa.  An
\* exception of the generation client leaves batch_generate.
GenerateSingleQa(w, response, char) ==
    /\ pc = "loop"
    /\ LET conversation == Pairs[pair].conversation
           difficulty == Pairs[pair].difficulty
           status == commit_status(is_step, char)
           parsed == parse_llm_response(response)
           qa == qa_dict(parsed, conversation, w, difficulty, now)
           committed == response.kind # "empty" /\ parsed.parsed
                            /\ status # Absent
           count == IF returns_qa(response, is_step, char)
                    THEN generated_count + 1 ELSE generated_count
       IN  IF response.kind = "raises"
           THEN /\ pc' = "raised"
                /\ invocations' = invocations + 1
                /\ UNCHANGED <<questions, disk, generated_count, rejected>>
           ELSE /\ returns_qa(response, is_step, char) \/ rejected < MaxRejected
                /\ IF committed
                   THEN /\ questions' = save_cache_list(
                               add_qa_list(questions, qa, status, EmptyDict,
                                           now))
                        /\ disk' = JsonQuestions(questions')
                   ELSE UNCHANGED <<questions, disk>>
                /\ generated_count' = count
                /\ invocations' = invocations + 1
                /\ rejected' = IF returns_qa(response, is_step, char)
                               THEN rejected ELSE rejected + 1
                /\ pc' = IF count < difficulty_counts[difficulty]
                         THEN "loop" ELSE "pair_end"
    /\ UNCHANGED <<now, ret, clientVars, envVars, run, pair,
                   first_run_exportable, valVars>>

\* A call of _generate_single_qa for a conversation with fewer sessions
\* than min_sessions: random.randint raises ValueError on its empty range,
\* which nothing in batch_generate catches.
SampleRaises ==
    /\ pc = "loop"
    /\ session_counts(Len(Pairs[pair].conversation.sessions),
                      min_sessions, max_sessions) = {}
    /\ pc' = "raised"
    /\ invocations' = invocations + 1
    /\ UNCHANGED <<questions, disk, now, ret, clientVars, envVars, run, pair,
                   generated_count, rejected, first_run_exportable, valVars>>

\* main's except clause after an exception in batch_generate: the export
\* of an empty list, and the process ends.
ExitAfterRaise ==
    /\ pc = "raised"
    /\ pc' = "boot"
    /\ UNCHANGED <<questions, disk, now, ret, clientVars, envVars, run,
                   genVars, valVars>>

\* The while loop has ended: on to the next pair.
EndPair ==
    /\ pc = "pair_end"
    /\ pair' = pair + 1
    /\ pc' = "pair"
    /\ UNCHANGED <<questions, disk, now, ret, clientVars, envVars, run,
                   generated_count, invocations, rejected,
                   first_run_exportable, valVars>>

\* batch_generate returns after the last pair.
BatchReturn ==
    /\ pc = "pair"
    /\ pair > Len(Pairs)
    /\ pc' = "generated"
    /\ first_run_exportable' =
          IF run = 1 THEN Len(get_exportable_qas(questions))
          ELSE first_run_exportable
    /\ UNCHANGED <<questions, disk, now, ret, clientVars, envVars, run, pair,
                   generated_count, invocations, rejected, valVars>>

\* main without --enable_validation: the export, and the process ends.
ExitAfterGenerate ==
    /\ pc = "generated"
    /\ pc' = "boot"
    /\ UNCHANGED <<questions, disk, now, ret, clientVars, envVars, run,
                   genVars, valVars>>

\* An empty cache directory and no process yet; the flag is the user's.
InitGenerate ==
    /\ questions = <<>>
    /\ disk = <<>>
    /\ now = 1
    /\ ret = None
    /\ NoClient
    /\ is_step \in BOOLEAN
    /\ dataset \in {Dataset, MixedDataset}
    /\ partial = FALSE
    /\ pc = "boot"
    /\ run = 0
    /\ pair = 0
    /\ generated_count = 0
    /\ invocations = 0
    /\ rejected = 0
    /\ first_run_exportable = -1
    /\ to_validate = <<>>
    /\ vi = 0
    /\ model_calls = {}
    /\ derivation = NoDerivation
    /\ sql_engine = <<>>

GenerateStep ==
    /\ pc = "loop"
    /\ \E w \in Windows(Pairs[pair].conversation), response \in Responses,
          char \in Chars :
           GenerateSingleQa(w, response, char)

NextGenerate ==
    \/ StartProcess
    \/ BatchGenerate
    \/ BeginPair
    \/ GenerateStep
    \/ SampleRaises
    \/ ExitAfterRaise
    \/ EndPair
    \/ BatchReturn
    \/ ExitAfterGenerate
    \/ Tick

SpecGenerate == InitGenerate /\ [][NextGenerate]_vars

-----------------------------------------------------------------------------
(* The quota loop of one pair with the reviewer's key and the model's      *)
(* response known: call holds what every attempt of the loop is given.     *)

AttemptCalls ==
    {[n |-> 0, fn |-> "_generate_single_qa", response |-> response,
      char |-> char] :
        response \in Responses, char \in Chars}

\* The cache files a process may start the loop on: none, or the file of
\* an earlier process that committed q1 for the pair.
AttemptFiles ==
    {<<>>}
    \cup {JsonQuestions(add_qa_list(
              <<>>,
              qa_dict(parse_llm_response(
                          JsonObject({"question", "answer"}, "q1", 5,
                                     <<Entry("list5", "r1")>>)),
                      Dataset[1], {1, 2}, "easy", 1),
              status, EmptyDict, 1)) : status \in Statuses}

\* The process has loaded the file and entered the while loop of the first
\* pair (conversation c1, easy).
InitAttempt ==
    /\ disk \in AttemptFiles
    /\ questions = load_cache(disk)
    /\ now = 1
    /\ ret = None
    /\ call \in AttemptCalls
    /\ upserted = [id \in QaIds |-> {}]
    /\ is_step \in BOOLEAN
    /\ dataset = Dataset
    /\ partial = FALSE
    /\ pc = "loop"
    /\ run = 1
    /\ pair = 1
    /\ generated_count = cached_count(questions, "c1", "easy")
    /\ invocations = 0
    /\ rejected = 0
    /\ first_run_exportable = -1
    /\ to_validate = <<>>
    /\ vi = 0
    /\ model_calls = {}
    /\ derivation = NoDerivation
    /\ sql_engine = <<>>

AttemptStep ==
    /\ pc = "loop"
    /\ \E w \in Windows(Pairs[pair].conversation) :
           GenerateSingleQa(w, call.response, call.char)

NextAttempt == AttemptStep \/ Tick

SpecAttempt == InitAttempt /\ [][NextAttempt]_vars

-----------------------------------------------------------------------------
(* One process from the loops of batch_generate on, started on the cache   *)
(* file of an earlier process.                                             *)

\* An item an earlier process committed for conversation c1.
QuotaItem(text, difficulty) ==
    qa_dict(parse_llm_response(JsonObject({"question", "answer"}, text, 5,
                                          <<Entry("list5", "r1")>>)),
            Dataset[1], {1, 2}, difficulty, 1)

\* The cache files: empty, one item short of the easy target, one disliked
\* item, the easy target reached, the medium target reached.
QuotaFiles ==
    {JsonQuestions(save_cache_list(qs)) : qs \in
        {<<>>,
         add_qa_list(<<>>, QuotaItem("q1", "easy"), "generated", EmptyDict, 1),
         add_qa_list(<<>>, QuotaItem("q1", "easy"), "disliked", EmptyDict, 1),
         add_qa_list(
             add_qa_list(<<>>, QuotaItem("q1", "easy"), "liked", EmptyDict, 1),
             QuotaItem("q2", "easy"), "generated", EmptyDict, 1),
         add_qa_list(<<>>, QuotaItem("q1", "medium"), "generated", EmptyDict,
                     1)}}

\* The process has loaded the file and batch_generate is at its loops.
InitQuota ==
    /\ disk \in QuotaFiles
    /\ questions = load_cache(disk)
    /\ now = 1
    /\ ret = None
    /\ NoClient
    /\ is_step \in BOOLEAN
    /\ dataset = Dataset
    /\ partial = FALSE
    /\ pc = "pair"
    /\ run = 1
    /\ pair = 1
    /\ generated_count = 0
    /\ invocations = 0
    /\ rejected = 0
    /\ first_run_exportable = -1
    /\ to_validate = <<>>
    /\ vi = 0
    /\ model_calls = {}
    /\ derivation = NoDerivation
    /\ sql_engine = <<>>

NextQuota ==
    \/ BeginPair
    \/ GenerateStep
    \/ EndPair
    \/ BatchReturn
    \/ ExitAfterGenerate
    \/ ExitAfterRaise
    \/ Tick

SpecQuota == InitQuota /\ [][NextQuota]_vars

\* The loops run on: a step of batch_generate that can be taken is taken.
\* The Generator is rejected at most MaxRejected times in a row (the guard
\* of GenerateSingleQa), so it returns an item again and again.
SpecQuotaFair ==
    /\ SpecQuota
    /\ WF_vars(BeginPair)
    /\ WF_vars(GenerateStep)
    /\ WF_vars(EndPair)
    /\ WF_vars(BatchReturn)

-----------------------------------------------------------------------------
(* Validator (src/src/utils/validator.py).  A Python number is a record    *)
(* [kind, tenths, nano] standing for tenths/10 + nano * 1e-9; a string is  *)
(* [kind, lead, body, trail], body being the text between lead and trail   *)
(* blanks.  A call either returns a value or raises an exception.          *)

MaxEvidence == 2

PyFloat(t, n) == [kind |-> "float", tenths |-> t, nano |-> n]
PyInt(i) == [kind |-> "int", tenths |-> 10 * i, nano |-> 0]
PyStr(lead, body, trail) ==
    [kind |-> "str", lead |-> lead, body |-> body, trail |-> trail]
PyNone == [kind |-> "NoneType"]

Returned(v) == [raised |-> None, value |-> v]
Raised(e) == [raised |-> e, value |-> None]

\* The numbers the texts of the model denote: float() of a string.
NumberOf ==
    [body \in {"5", "5.0", "5.1", "0"} |->
        CASE body = "5" -> PyFloat(50, 0)
          [] body = "5.0" -> PyFloat(50, 0)
          [] body = "5.1" -> PyFloat(51, 0)
          [] body = "0" -> PyFloat(0, 0)]

\* float(a): numbers convert, a string converts when its text between the
\* blanks is a number, None is a TypeError.
float(a) ==
    CASE a.kind \in {"float", "int"} -> Returned(PyFloat(a.tenths, a.nano))
      [] a.kind = "str" ->
            IF a.body \in DOMAIN NumberOf THEN Returned(NumberOf[a.body])
            ELSE Raised("ValueError")
      [] OTHER -> Raised("TypeError")

\* str(a), for the numbers of the model by repr.
str(a) ==
    CASE a.kind = "str" -> a
      [] a.kind = "NoneType" -> PyStr(0, "None", 0)
      [] a.kind = "int" ->
            PyStr(0, IF a.tenths = 50 THEN "5" ELSE "0", 0)
      [] OTHER ->
            PyStr(0,
                  CASE a.tenths = 50 /\ a.nano = 0 -> "5.0"
                    [] a.tenths = 50 /\ a.nano = 1 -> "5.000000001"
                    [] a.tenths = 51 /\ a.nano = 0 -> "5.1"
                    [] a.tenths = 51 /\ a.nano = 1 -> "5.100000001"
                    [] a.tenths = 0 /\ a.nano = 0 -> "0.0"
                    [] OTHER -> "1e-09",
                  0)

strip(text) == [text EXCEPT !.lead = 0, !.trail = 0]

Abs(i) == IF i < 0 THEN 0 - i ELSE i

\* math.isclose(x, y, rel_tol=1e-9) on non-negative numbers below 10^7:
\* |x - y| <= 1e-9 * max(x, y).  Numbers of different tenths are 0.1 apart,
\* beyond any such tolerance; with equal tenths t the test is
\* 10 * |nano difference| <= t + (a fraction below 1).
isclose(x, y) ==
    /\ x.tenths = y.tenths
    /\ 10 * Abs(x.nano - y.nano) <= x.tenths

\* Mutant: the fallback catches ValueError alone.
compare_answers_catches_value_error(a1, a2) ==
    LET num1 == float(a1)
        num2 == float(a2)
        e == IF num1.raised # None THEN num1.raised ELSE num2.raised
    IN  IF e = None THEN Returned(isclose(num1.value, num2.value))
        ELSE IF e = "ValueError"
             THEN Returned(strip(str(a1)) = strip(str(a2)))
        ELSE Raised(e)

\* compare_answers: the try block, and the string fallback of its except
\* clause for ValueError and TypeError.
compare_answers(a1, a2) ==
    LET num1 == float(a1)
        num2 == float(a2)
        e == IF num1.raised # None THEN num1.raised ELSE num2.raised
    IN  IF e = None THEN Returned(isclose(num1.value, num2.value))
        ELSE IF e \in {"ValueError", "TypeError"}
             THEN Returned(strip(str(a1)) = strip(str(a2)))
        ELSE Raised(e)

\* An evidence 5-tuple (code, sname, tdate, value, suffix).
EvidenceTuple(code, value) ==
    [kind |-> "tuple", code |-> code, sname |-> "name", tdate |-> "20231201",
     value |-> value, suffix |-> "net_flow"]

\* _normalize_and_split_llm_evidence on an evidence tuple: its first
\* statement, re.split(pattern, evidence_str), takes a string only.
normalize_and_split_llm_evidence(evidence_str) == Raised("TypeError")

\* compare_evidence on lists of evidence tuples, the form validate_qas and
\* validate_and_correct build: the loop over llm_evidence normalizes the
\* entries in order; with no entry, the result is the emptiness of the
\* other side.
compare_evidence(llm_evidence, sql_evidence_raw) ==
    IF llm_evidence = <<>> THEN Returned(sql_evidence_raw = <<>>)
    ELSE normalize_and_split_llm_evidence(llm_evidence[1])

\* The operands and evidence lists of the calls below.
PyNumbers ==
    {PyFloat(t, n) : t \in {0, 50, 51}, n \in {0, 1}} \cup {PyInt(0), PyInt(5)}

PyStrings ==
    {PyStr(lead, body, trail) :
        lead \in {0, 1}, body \in {"5", "5.0", "foo", "bar", "None"},
        trail \in {0, 1}}

PyValues == PyNumbers \cup PyStrings \cup {PyNone}

EvidenceTuples ==
    {EvidenceTuple(code, value) :
        code \in {"A", "B"}, value \in {PyInt(5), PyFloat(50, 0), PyFloat(51, 0)}}

EvidenceLists ==
    UNION {[1..n -> EvidenceTuples] : n \in 0..MaxEvidence}

\* The calls a client may make: the function and its two arguments.
CompareCalls ==
    {[n |-> 0, fn |-> "compare_answers", a1 |-> a1, a2 |-> a2] :
        a1 \in PyValues, a2 \in PyValues}
    \cup
    {[n |-> 0, fn |-> "compare_evidence", llm_evidence |-> e1,
      sql_evidence_raw |-> e2] :
        e1 \in EvidenceLists, e2 \in EvidenceLists}

InitCompare ==
    /\ questions = <<>>
    /\ disk = <<>>
    /\ now = 1
    /\ ret = None
    /\ call \in CompareCalls
    /\ upserted = [id \in QaIds |-> {}]
    /\ NoProcess

CompareAnswersCall ==
    /\ call.n = 0
    /\ call.fn = "compare_answers"
    /\ ret' = compare_answers(call.a1, call.a2)
    /\ call' = [call EXCEPT !.n = 1]
    /\ UNCHANGED <<questions, disk, now, upserted, procVars, genVars, valVars>>

CompareEvidenceCall ==
    /\ call.n = 0
    /\ call.fn = "compare_evidence"
    /\ ret' = compare_evidence(call.llm_evidence, call.sql_evidence_raw)
    /\ call' = [call EXCEPT !.n = 1]
    /\ UNCHANGED <<questions, disk, now, upserted, procVars, genVars, valVars>>

NextCompare == CompareAnswersCall \/ CompareEvidenceCall

SpecCompare == InitCompare /\ [][NextCompare]_vars

-----------------------------------------------------------------------------
(* _parse_llm_response called on one response of the generation client. *)

\* The shapes of an evidence entry: a list of five elements, a string
\* that spells one, a key/value mapping, a list of another length, a
\* string that spells no list, and a list of five whose value is no number.
EntryShapes ==
    {"list5", "str_list5", "dict", "list4", "str_other", "list5_bad_value"}

\* The entry of each shape; the row it names is the entry's content.
Entries == {Entry(shape, "row of " \o shape) : shape \in EntryShapes}

EntryLists == UNION {[1..n -> Entries] : n \in 0..MaxEvidence}

ParseCalls ==
    {[n |-> 0, fn |-> "_parse_llm_response", response |-> r] :
        r \in {EmptyResponse, UnparsableResponse}
              \cup {JsonObject(keys, "q1", 5, evidence) :
                       keys \in SUBSET {"question", "answer"},
                       evidence \in EntryLists}}

InitParse ==
    /\ questions = <<>>
    /\ disk = <<>>
    /\ now = 1
    /\ ret = None
    /\ call \in ParseCalls
    /\ upserted = [id \in QaIds |-> {}]
    /\ NoProcess

ParseCall ==
    /\ call.n = 0
    /\ call.fn = "_parse_llm_response"
    /\ ret' = parse_llm_response(call.response)
    /\ call' = [call EXCEPT !.n = 1]
    /\ UNCHANGED <<questions, disk, now, upserted, procVars, genVars, valVars>>

NextParse == ParseCall

SpecParse == InitParse /\ [][NextParse]_vars

-----------------------------------------------------------------------------
(* The context window of _generate_single_qa: the number of sessions, the  *)
(* sample and the sort by session id, for conversations of up to           *)
(* MaxSessions sessions whose ids load_data numbered.                      *)

MaxSessions == 10

\* The id load_data gives the k-th session of a conversation.
session_id(k) == [prefix |-> "session_", number |-> k]

\* str(k): the decimal digits of a session number.
RECURSIVE Digits(_)
Digits(k) == IF k < 10 THEN <<k>> ELSE Digits(k \div 10) \o <<k % 10>>

\* The order of two strings of digits: character by character, a proper
\* prefix first.
RECURSIVE LexLess(_, _)
LexLess(a, b) ==
    IF a = <<>> THEN b # <<>>
    ELSE IF b = <<>> THEN FALSE
    ELSE IF a[1] # b[1] THEN a[1] < b[1]
    ELSE LexLess(Tail(a), Tail(b))

\* s.id < t.id for two ids of one prefix: the order of Python strings.
id_less(a, b) == LexLess(Digits(a.number), Digits(b.number))

\* selected_sessions.sort(key=lambda s: s.id) and the list of the ids.
RECURSIVE sorted_by_id(_)
sorted_by_id(sample) ==
    IF sample = {} THEN <<>>
    ELSE LET first == CHOOSE s \in sample :
                          \A t \in sample \ {s} : id_less(s, t)
         IN <<first>> \o sorted_by_id(sample \ {first})

SampleCalls ==
    {[n |-> 0, fn |-> "sample", sessions |-> len,
      min_sessions |-> lo, max_sessions |-> hi] :
        len \in 1..MaxSessions, lo \in {2}, hi \in {2, 3}}

InitSample ==
    /\ questions = <<>>
    /\ disk = <<>>
    /\ now = 1
    /\ ret = None
    /\ call \in SampleCalls
    /\ upserted = [id \in QaIds |-> {}]
    /\ NoProcess

\* random.randint finds no session count and raises.
SampleCallRaises ==
    /\ call.n = 0
    /\ call.fn = "sample"
    /\ session_counts(call.sessions, call.min_sessions, call.max_sessions) = {}
    /\ ret' = Raised("ValueError")
    /\ call' = [call EXCEPT !.n = 1]
    /\ UNCHANGED <<questions, disk, now, upserted, procVars, genVars, valVars>>

\* random.randint, random.sample and the sort.
SampleCall ==
    /\ call.n = 0
    /\ call.fn = "sample"
    /\ \E w \in samples(call.sessions, call.min_sessions, call.max_sessions) :
           ret' = Returned(sorted_by_id({session_id(k) : k \in w}))
    /\ call' = [call EXCEPT !.n = 1]
    /\ UNCHANGED <<questions, disk, now, upserted, procVars, genVars, valVars>>

NextSample == SampleCall \/ SampleCallRaises

SpecSample == InitSample /\ [][NextSample]_vars

-----------------------------------------------------------------------------
(* _build_session_context on the selected sessions: the lines of the text  *)
(* the generation prompt carries.                                          *)

Line(kind, session, table, what) ==
    [kind |-> kind, session |-> session, table |-> table, what |-> what]

\* The lines of the rows of one table, after its heading.
RECURSIVE row_lines(_, _, _)
row_lines(session, idx, rows) ==
    IF rows = <<>> THEN <<>>
    ELSE <<Line("row", session.id, idx, Head(rows))>>
             \o row_lines(session, idx, Tail(rows))

\* for idx, table in enumerate(session.tables)
RECURSIVE table_lines(_, _)
table_lines(session, idx) ==
    IF idx >= Len(session.tables) THEN <<>>
    ELSE <<Line("table", session.id, idx, "headers")>>
             \o row_lines(session, idx, session.tables[idx + 1].rows)
             \o table_lines(session, idx + 1)

\* for turn in session.turns
RECURSIVE turn_lines(_, _)
turn_lines(session, turns) ==
    IF turns = <<>> THEN <<>>
    ELSE <<Line("turn", session.id, 0, Head(turns))>>
             \o turn_lines(session, Tail(turns))

\* The lines of one session: the branch on session.tables.
session_lines(session) ==
    <<Line("session", session.id, 0, "id")>>
        \o (IF session.tables # <<>>
            THEN <<Line("data type", session.id, 0, "Structured Table")>>
                     \o table_lines(session, 0)
            ELSE <<Line("time", session.id, 0, "time"),
                   Line("participants", session.id, 0, "participants"),
                   Line("dialogs", session.id, 0, "Dialogs:")>>
                     \o turn_lines(session, session.turns))
        \o <<Line("blank", session.id, 0, "")>>

RECURSIVE build_session_context(_)
build_session_context(sessions) ==
    IF sessions = <<>> THEN <<>>
    ELSE session_lines(Head(sessions))
             \o build_session_context(Tail(sessions))

\* The turns and the tables a loaded session may have: no, one or two
\* turns; no table, one table of one row, a table of two rows and an
\* empty one.
TurnLists == {<<>>, <<"t1">>, <<"t1", "t2">>}
TableLists ==
    {<<>>, <<[rows |-> <<"r1">>]>>,
     <<[rows |-> <<"r1", "r2">>], [rows |-> <<>>]>>}

ContextSessions ==
    UNION {[1..k -> [turns : TurnLists, tables : TableLists]] :
              k \in 1..max_sessions}

\* The selected sessions, in the order of their ids.
WithIds(shapes) ==
    [i \in 1..Len(shapes) |->
        [id |-> i, turns |-> shapes[i].turns, tables |-> shapes[i].tables]]

ContextCalls ==
    {[n |-> 0, fn |-> "_build_session_context", sessions |-> WithIds(shapes)] :
        shapes \in ContextSessions}

InitContext ==
    /\ questions = <<>>
    /\ disk = <<>>
    /\ now = 1
    /\ ret = None
    /\ call \in ContextCalls
    /\ upserted = [id \in QaIds |-> {}]
    /\ NoProcess

ContextCall ==
    /\ call.n = 0
    /\ call.fn = "_build_session_context"
    /\ ret' = build_session_context(call.sessions)
    /\ call' = [call EXCEPT !.n = 1]
    /\ UNCHANGED <<questions, disk, now, upserted, procVars, genVars, valVars>>

NextContext == ContextCall

SpecContext == InitContext /\ [][NextContext]_vars

-----------------------------------------------------------------------------
(* A generation process that can be interrupted at any point, with         *)
(* save_cache in its two steps: open(path, 'w') empties the file, json.dump *)
(* writes it.  call holds the item between its add_qa and the end of its   *)
(* save_cache; upserted records the add_qa calls.                          *)

NothingInFlight == [n |-> 0, qa_id |-> None]

\* json.load of the cache file: a file that was opened for writing and not
\* written to its end raises JSONDecodeError, and the cache starts empty.
read_cache_file(file, truncated) ==
    IF truncated THEN <<>> ELSE load_cache(file)

InitInterrupt ==
    /\ questions = <<>>
    /\ disk = <<>>
    /\ now = 1
    /\ ret = None
    /\ call = NothingInFlight
    /\ upserted = [id \in QaIds |-> {}]
    /\ is_step = FALSE
    /\ dataset = Dataset
    /\ partial = FALSE
    /\ pc = "boot"
    /\ run = 0
    /\ pair = 0
    /\ generated_count = 0
    /\ invocations = 0
    /\ rejected = 0
    /\ first_run_exportable = -1
    /\ to_validate = <<>>
    /\ vi = 0
    /\ model_calls = {}
    /\ derivation = NoDerivation
    /\ sql_engine = <<>>

\* QuestionGenerator.__init__ loads the cache file; on to the loops.
StartInterruptible ==
    /\ pc = "boot"
    /\ run < MaxRuns
    /\ run' = run + 1
    /\ questions' = read_cache_file(disk, partial)
    /\ pc' = "loop"
    /\ UNCHANGED <<disk, now, ret, clientVars, envVars, genVars, valVars>>

\* _generate_single_qa up to the return of add_qa.
CommitAddQa(text, difficulty) ==
    /\ pc = "loop"
    /\ LET response == JsonObject({"question", "answer"}, text, 5,
                                  <<Entry("list5", "r1")>>)
           qa == qa_dict(parse_llm_response(response), dataset[1], {1, 2},
                         difficulty, now)
       IN  /\ questions' = add_qa_list(questions, qa, "generated", EmptyDict,
                                       now)
           /\ upserted' = [upserted EXCEPT ![qa.qa_id] = @ \cup {"generated"}]
           /\ call' = [n |-> 1, qa_id |-> qa.qa_id]
    /\ pc' = "save"
    /\ UNCHANGED <<disk, now, ret, envVars, run, genVars, valVars>>

\* save_cache: the sort, and open(path, 'w'), which empties the file.
SaveCacheOpen ==
    /\ pc = "save"
    /\ questions' = save_cache_list(questions)
    /\ disk' = <<>>
    /\ partial' = TRUE
    /\ pc' = "dump"
    /\ UNCHANGED <<now, ret, clientVars, is_step, dataset, run, genVars,
                   valVars>>

\* save_cache: json.dump has written the file and the file is closed.
SaveCacheDump ==
    /\ pc = "dump"
    /\ disk' = JsonQuestions(questions)
    /\ partial' = FALSE
    /\ call' = NothingInFlight
    /\ pc' = "loop"
    /\ UNCHANGED <<questions, now, ret, upserted, is_step, dataset, run,
                   genVars, valVars>>

\* The process is killed or interrupted from the keyboard, wherever it is.
Interrupt ==
    /\ pc \in {"loop", "save", "dump"}
    /\ pc' = "boot"
    /\ UNCHANGED <<questions, disk, now, ret, clientVars, envVars, run,
                   genVars, valVars>>

CommitStep ==
    \E text \in Texts, difficulty \in {"easy", "medium"} :
        CommitAddQa(text, difficulty)

NextInterrupt ==
    \/ StartInterruptible
    \/ CommitStep
    \/ SaveCacheOpen
    \/ SaveCacheDump
    \/ Interrupt
    \/ Tick

SpecInterrupt == InitInterrupt /\ [][NextInterrupt]_vars

-----------------------------------------------------------------------------
(* A process whose save_cache can fail (a full disk, a file that cannot be *)
(* opened), followed by validate_qas's reload of the cache in step mode.   *)

InitFailingSave ==
    /\ questions = <<>>
    /\ disk = <<>>
    /\ now = 1
    /\ ret = None
    /\ call = NothingInFlight
    /\ upserted = [id \in QaIds |-> {}]
    /\ is_step \in BOOLEAN
    /\ dataset = Dataset
    /\ partial = FALSE
    /\ pc = "boot"
    /\ run = 0
    /\ pair = 0
    /\ generated_count = 0
    /\ invocations = 0
    /\ rejected = 0
    /\ first_run_exportable = -1
    /\ to_validate = <<>>
    /\ vi = 0
    /\ model_calls = {}
    /\ derivation = NoDerivation
    /\ sql_engine = <<>>

\* save_cache: the sort, then open(path, 'w') raises; the except clause
\* logs it and save_cache returns.  The file is as it was.
SaveCacheOpenFails ==
    /\ pc = "save"
    /\ questions' = save_cache_list(questions)
    /\ call' = NothingInFlight
    /\ pc' = "loop"
    /\ UNCHANGED <<disk, now, ret, upserted, envVars, run, genVars, valVars>>

\* save_cache: json.dump raises after open emptied the file; the except
\* clause logs it and save_cache returns.  The file stays cut off.
SaveCacheDumpFails ==
    /\ pc = "dump"
    /\ call' = NothingInFlight
    /\ pc' = "loop"
    /\ UNCHANGED <<questions, disk, now, ret, upserted, envVars, run,
                   genVars, valVars>>

\* batch_generate has returned and main calls validate_qas, which in step
\* mode loads the cache file again.
ValidateQasReload ==
    /\ pc = "loop"
    /\ questions' = IF is_step THEN read_cache_file(disk, partial)
                    ELSE questions
    /\ pc' = "validate"
    /\ UNCHANGED <<disk, now, ret, clientVars, envVars, run, genVars,
                   valVars>>

\* The process ends.
ExitAfterReload ==
    /\ pc = "validate"
    /\ pc' = "boot"
    /\ UNCHANGED <<questions, disk, now, ret, clientVars, envVars, run,
                   genVars, valVars>>

NextFailingSave ==
    \/ StartInterruptible
    \/ CommitStep
    \/ SaveCacheOpen
    \/ SaveCacheOpenFails
    \/ SaveCacheDump
    \/ SaveCacheDumpFails
    \/ ValidateQasReload
    \/ ExitAfterReload
    \/ Tick

SpecFailingSave == InitFailingSave /\ [][NextFailingSave]_vars

-----------------------------------------------------------------------------
(* BatchValidator.validate_qas, run by a process that has loaded the cache *)
(* file of an earlier campaign.                                            *)

MaxFileItems == 2

FixtureItem(text, conversation_id, session_ids, difficulty, status, answer) ==
    [qa_id           |-> generate_qa_id([question_text |-> text]),
     question_text   |-> text,
     answer_text     |-> answer,
     evidence        |-> Evidence2,
     conversation_id |-> conversation_id,
     session_ids     |-> session_ids,
     timestamp       |-> 1,
     difficulty      |-> difficulty,
     status          |-> status,
     sql_info        |-> EmptyDict,
     sql_status      |-> Absent]

\* Items a cache file may hold when validation starts: sessions with and
\* without tables, a conversation and sessions the dataset does not have,
\* a disliked item and an item whose answer is 0.0.
FixtureItems ==
    << FixtureItem("v1", "c1", <<"s1">>, "easy", "liked", 5),
       FixtureItem("v2", "c1", <<"s2">>, "medium", "generated", 5),
       FixtureItem("v3", "c9", <<"s1">>, "hard", "generated", 5),
       FixtureItem("v4", "c1", <<"s9">>, "easy", "liked", 5),
       FixtureItem("v5", "c1", <<"s1", "s9">>, "medium", "generated", 5),
       FixtureItem("v6", "c1", <<"s1">>, "hard", "disliked", 5),
       FixtureItem("v7", "c1", <<"s1">>, "hard", "generated", 0) >>

RECURSIVE Picked(_, _, _)
Picked(items, w, i) ==
    IF i > Len(items) THEN <<>>
    ELSE (IF i \in w THEN <<items[i]>> ELSE <<>>) \o Picked(items, w, i + 1)

\* The cache files: up to MaxFileItems items in the order save_cache wrote.
FixtureFiles ==
    {save_cache_list(Picked(FixtureItems, w, 1)) :
        w \in {v \in SUBSET (1..Len(FixtureItems)) :
                  Cardinality(v) >= 1 /\ Cardinality(v) <= MaxFileItems}}

\* The filter of validate_qas on the recorded sql_status.
needs_validation(qa) == qa.sql_info.sql_status \notin {"match", "skipped"}

RECURSIVE IdsOf(_)
IdsOf(qs) == IF qs = <<>> THEN <<>> ELSE <<Head(qs).qa_id>> \o IdsOf(Tail(qs))

qas_to_validate(qs) == IdsOf(SelectSeq(get_exportable_qas(qs), needs_validation))

\* evidence_llm: the tuples of a non-empty list of lists, else nothing.
evidence_llm(qa) ==
    IF qa.evidence.elem = "list" /\ qa.evidence.rows # <<>>
    THEN qa.evidence.rows ELSE <<>>

\* The "malformed QA item" test: a falsy question, answer, evidence,
\* conversation id or session id list.
is_malformed(qa) ==
    \/ qa.question_text = ""
    \/ qa.answer_text = 0
    \/ evidence_llm(qa) = <<>>
    \/ qa.conversation_id = ""
    \/ qa.session_ids = <<>>

\* next(conv for conv in dataset.conversations if conv.id == ...), 0 for None.
RECURSIVE ConversationFrom(_, _)
ConversationFrom(conversation_id, i) ==
    IF i > Len(dataset) THEN 0
    ELSE IF dataset[i].id = conversation_id THEN i
    ELSE ConversationFrom(conversation_id, i + 1)

relevant_conversation(conversation_id) == ConversationFrom(conversation_id, 1)

is_selected(session_ids, session) ==
    \E k \in 1..Len(session_ids) : session_ids[k] = session.id

\* [s for s in relevant_conversation.sessions if s.id in session_ids]
selected_sessions(conversation, session_ids) ==
    LET Chosen(session) == is_selected(session_ids, session)
    IN  SelectSeq(conversation.sessions, Chosen)

\* validate_and_correct finds a table in some session.
has_tables(sessions) == \E k \in 1..Len(sessions) : sessions[k].tables

\* tables.extend(session.tables) over the sessions: each session that has
\* tables brings one, named after the session.
RECURSIVE session_tables(_)
session_tables(sessions) ==
    IF sessions = <<>> THEN <<>>
    ELSE (IF Head(sessions).tables THEN <<Head(sessions).id>> ELSE <<>>)
             \o session_tables(Tail(sessions))

\* create_table_from_struct: the i-th table of the list replaces Table_i
\* (DROP TABLE IF EXISTS, CREATE TABLE, INSERT); the tables of higher
\* index stay as they are.
create_table_from_struct(engine, tables) ==
    [i \in 1..(IF Len(engine) > Len(tables) THEN Len(engine) ELSE Len(tables))
        |-> IF i <= Len(tables) THEN tables[i] ELSE engine[i]]

\* The sql_status validate_and_correct records after the two comparisons.
compared_status(answer_match, evidence_match) ==
    IF answer_match /\ evidence_match THEN "match"
    ELSE IF ~answer_match /\ ~evidence_match
         THEN "answer_not_match; evidence_not_match"
    ELSE IF ~answer_match THEN "answer_not_match"
    ELSE "evidence_not_match"

\* What the query derivation yields for an item: the model's response
\* (None when the call failed, else with or without each marker followed
\* by a statement), and what running the two statements gives.
DerivedRows == {<<"r1", "r2">>, <<"r2", "r1">>, <<"r1", "r9">>}

Derivations ==
    {[response |-> None, sql_answer |-> FALSE, sql_evidence |-> FALSE,
      executes |-> FALSE, answer_sql |-> PyNone, rows |-> <<>>]}
    \cup
    {[response |-> "text", sql_answer |-> a, sql_evidence |-> e,
      executes |-> FALSE, answer_sql |-> PyNone, rows |-> <<>>] :
        a \in BOOLEAN, e \in BOOLEAN}
    \cup
    {[response |-> "text", sql_answer |-> TRUE, sql_evidence |-> TRUE,
      executes |-> TRUE, answer_sql |-> v, rows |-> r] :
        v \in {PyFloat(50, 0), PyFloat(51, 0)}, r \in DerivedRows}

\* _parse_double_query: re.search on the response, and the error branch,
\* whose log statement names the undefined sql_text.
parse_double_query(derived) ==
    IF derived.response = None THEN Raised("TypeError")
    ELSE IF ~derived.sql_answer \/ ~derived.sql_evidence
         THEN Raised("NameError")
    ELSE Returned(<<"answer_query", "evidence_query">>)

\* execute_query for the two statements: sqlite3.Error is raised again.
execute_queries(derived) ==
    IF ~derived.executes THEN Raised("sqlite3.OperationalError")
    ELSE Returned([answer_sql |-> derived.answer_sql, rows |-> derived.rows])

\* Mutant: the except clause sets the status and forgets the message.
failed_record_without_error(e) == [sql_status |-> "failed", error |-> None]

\* The record left by the except clause: str(e) of the exception.
failed_record(e) == [sql_status |-> "failed", error |-> "<" \o e \o ">"]

\* The record validate_and_correct returns.
validate_and_correct(answer_llm, evidence, sessions, derived) ==
    IF ~has_tables(sessions)
    THEN [sql_status |-> "sql_skipped", error |-> None]
    ELSE LET parsed == parse_double_query(derived)
             executed == execute_queries(derived)
             answer_match == compare_answers(answer_llm,
                                             executed.value.answer_sql)
             evidence_match == compare_evidence(evidence,
                                                executed.value.rows)
         IN  IF parsed.raised # None THEN failed_record(parsed.raised)
             ELSE IF executed.raised # None
                  THEN failed_record(executed.raised)
             ELSE IF answer_match.raised # None
                  THEN failed_record(answer_match.raised)
             ELSE IF evidence_match.raised # None
                  THEN failed_record(evidence_match.raised)
             ELSE [sql_status |-> compared_status(answer_match.value,
                                                  evidence_match.value),
                   error |-> None]

\* The stored item as the qa_pair validate_qas hands to add_qa.
as_qa_pair(qa) == qa

\* A process constructs the cache manager and the BatchValidator, with its
\* SqlEngine on a new in-memory database, and is about to call validate_qas.
StartValidator ==
    /\ pc = "boot"
    /\ run < MaxRuns
    /\ run' = run + 1
    /\ questions' = load_cache(disk)
    /\ sql_engine' = <<>>
    /\ pc' = "validate_qas"
    /\ UNCHANGED <<disk, now, ret, clientVars, envVars, genVars, to_validate, vi,
                   model_calls, derivation>>

\* validate_qas up to its for loop (lines 344-356).
ValidateBegin ==
    /\ pc = "validate_qas"
    /\ questions' = IF is_step THEN load_cache(disk) ELSE questions
    /\ to_validate' = qas_to_validate(questions')
    /\ vi' = 1
    /\ model_calls' = {}
    /\ derivation' = NoDerivation
    /\ pc' = "validating"
    /\ UNCHANGED <<disk, now, ret, clientVars, envVars, run, genVars,
                   sql_engine>>

\* One pass of the for loop (lines 358-406).  On a missing conversation or
\* missing sessions the item gets the key sql_status and add_qa is called
\* with a keyword it does not have: the TypeError leaves validate_qas.
ValidateItem(derived) ==
    /\ pc = "validating"
    /\ vi <= Len(to_validate)
    /\ LET i == existing_qa_index(questions, to_validate[vi])
           qa_item == questions[i]
           c == relevant_conversation(qa_item.conversation_id)
           sessions == selected_sessions(dataset[c], qa_item.session_ids)
           sql_info == validate_and_correct(PyFloat(10 * qa_item.answer_text, 0),
                                            evidence_llm(qa_item), sessions,
                                            derived)
       IN  IF is_malformed(qa_item)
           THEN /\ vi' = vi + 1
                /\ UNCHANGED <<questions, disk, pc, model_calls, derivation,
                               sql_engine>>
           ELSE IF c = 0
           THEN /\ questions' = [questions EXCEPT
                       ![i].sql_status = "sql_skipped_no_conversation"]
                /\ pc' = "raised"
                /\ UNCHANGED <<disk, vi, model_calls, derivation, sql_engine>>
           ELSE IF sessions = <<>>
           THEN /\ questions' = [questions EXCEPT
                       ![i].sql_status = "sql_skipped_no_sessions"]
                /\ pc' = "raised"
                /\ UNCHANGED <<disk, vi, model_calls, derivation, sql_engine>>
           ELSE /\ questions' = save_cache_list(
                       add_qa_list(questions, as_qa_pair(qa_item),
                                   qa_item.status, sql_info, now))
                /\ disk' = JsonQuestions(questions')
                /\ model_calls' = IF has_tables(sessions)
                                  THEN model_calls \cup {qa_item.qa_id}
                                  ELSE model_calls
                /\ derivation' = IF has_tables(sessions)
                                 THEN [qa_id |-> qa_item.qa_id,
                                       derived |-> derived]
                                 ELSE derivation
                /\ sql_engine' =
                       IF has_tables(sessions)
                       THEN create_table_from_struct(sql_engine,
                                                     session_tables(sessions))
                       ELSE sql_engine
                /\ vi' = vi + 1
                /\ UNCHANGED pc
    /\ UNCHANGED <<now, ret, clientVars, envVars, run, genVars, to_validate>>

\* The for loop has gone through qas_to_validate: validate_qas returns.
ValidateEnd ==
    /\ pc = "validating"
    /\ vi > Len(to_validate)
    /\ pc' = "validated"
    /\ UNCHANGED <<questions, disk, now, ret, clientVars, envVars, run,
                   genVars, valVars>>

\* main after validate_qas returned or raised: the export, and the process
\* ends.
ExitAfterValidate ==
    /\ pc \in {"validated", "raised"}
    /\ pc' = "boot"
    /\ UNCHANGED <<questions, disk, now, ret, clientVars, envVars, run,
                   genVars, valVars>>

InitValidate ==
    /\ questions = <<>>
    /\ disk \in FixtureFiles
    /\ now = 1
    /\ ret = None
    /\ NoClient
    /\ is_step \in BOOLEAN
    /\ dataset = Dataset
    /\ partial = FALSE
    /\ pc = "boot"
    /\ run = 0
    /\ pair = 0
    /\ generated_count = 0
    /\ invocations = 0
    /\ rejected = 0
    /\ first_run_exportable = -1
    /\ to_validate = <<>>
    /\ vi = 0
    /\ model_calls = {}
    /\ derivation = NoDerivation
    /\ sql_engine = <<>>

ValidateStep == \E derived \in Derivations : ValidateItem(derived)

NextValidate ==
    \/ StartValidator
    \/ ValidateBegin
    \/ ValidateStep
    \/ ValidateEnd
    \/ ExitAfterValidate
    \/ Tick

SpecValidate == InitValidate /\ [][NextValidate]_vars

-----------------------------------------------------------------------------
(* The tables of the validator's SqlEngine over the items of one           *)
(* validate_qas call, for sessions that carry several tables.              *)

\* A conversation whose sessions carry two tables, one table, one table
\* and none.
TabularSessions ==
    << [id |-> "sA", tables |-> <<"a1", "a2">>],
       [id |-> "sB", tables |-> <<"b1">>],
       [id |-> "sC", tables |-> <<"c1">>],
       [id |-> "sD", tables |-> <<>>] >>

\* validate_and_correct's list tables: tables.extend(session.tables).
RECURSIVE extended_tables(_)
extended_tables(sessions) ==
    IF sessions = <<>> THEN <<>>
    ELSE Head(sessions).tables \o extended_tables(Tail(sessions))

\* The table lists of the items: one for each selection of sessions.
ItemTables ==
    {extended_tables(Picked(TabularSessions, w, 1)) :
        w \in SUBSET (1..Len(TabularSessions)) \ {{}}}

RelationCalls ==
    {[n |-> 0, fn |-> "validate_qas", items |-> items] :
        items \in UNION {[1..k -> ItemTables] : k \in 1..MaxFileItems}}

InitRelation ==
    /\ questions = <<>>
    /\ disk = <<>>
    /\ now = 1
    /\ ret = None
    /\ call \in RelationCalls
    /\ upserted = [id \in QaIds |-> {}]
    /\ NoProcess

\* validate_and_correct for the next item, up to the derived queries: no
\* table and the item is skipped, else the tables are created.
CreateTablesForItem ==
    /\ call.fn = "validate_qas"
    /\ call.n < Len(call.items)
    /\ LET tables == call.items[call.n + 1]
       IN  sql_engine' = IF tables = <<>> THEN sql_engine
                         ELSE create_table_from_struct(sql_engine, tables)
    /\ call' = [call EXCEPT !.n = @ + 1]
    /\ UNCHANGED <<questions, disk, now, ret, upserted, procVars, genVars,
                   to_validate, vi, model_calls, derivation>>

NextRelation == CreateTablesForItem

SpecRelation == InitRelation /\ [][NextRelation]_vars

-----------------------------------------------------------------------------
(* QACacheManager constructed on a cache directory whose qa_cache.json is  *)
(* missing, unreadable or of another shape, and one operation called on it. *)

\* What the cache directory holds for qa_cache.json: no file, bytes that
\* are no UTF-8 text, text that is no JSON, JSON of another shape (a list,
\* a number or string or null, an object without the questions key, an
\* object whose questions is null), or a file save_cache wrote.
CorruptKinds ==
    {"missing", "undecodable", "not_json", "json_list", "json_scalar",
     "dict_without_questions", "questions_null"}

CacheFile(kind, qs) == [kind |-> kind, questions |-> qs]

CacheFiles ==
    {CacheFile(kind, <<>>) : kind \in CorruptKinds}
        \cup {CacheFile("cache", JsonQuestions(qs)) : qs \in FixtureFiles}

\* _initialize_empty_cache_data
initialize_empty_cache_data == [shape |-> "cache", questions |-> <<>>]

\* load_cache: cache_data after it, or the exception it lets through.
\* open(..., encoding='utf-8') and json.load raise UnicodeDecodeError on
\* bytes that are no UTF-8, which the except clause does not name.
load_cache_data(file) ==
    CASE file.kind = "missing" -> Returned(initialize_empty_cache_data)
      [] file.kind = "not_json" -> Returned(initialize_empty_cache_data)
      [] file.kind = "undecodable" -> Raised("UnicodeDecodeError")
      [] file.kind = "cache" ->
             Returned([shape |-> "cache",
                       questions |-> load_cache(file.questions)])
      [] OTHER -> Returned([shape |-> file.kind, questions |-> <<>>])

\* add_qa on that cache_data: self.cache_data["questions"] and enumerate.
add_qa_on(cache_data, qa_pair, status) ==
    CASE cache_data.shape = "cache" ->
             Returned(add_qa_returns(cache_data.questions, qa_pair))
      [] cache_data.shape = "dict_without_questions" -> Raised("KeyError")
      [] OTHER -> Raised("TypeError")

\* get_exportable_qas on that cache_data: self.cache_data.get and the loop.
get_exportable_qas_on(cache_data) ==
    CASE cache_data.shape = "cache" ->
             Returned(get_exportable_qas(cache_data.questions))
      [] cache_data.shape = "dict_without_questions" -> Returned(<<>>)
      [] cache_data.shape = "questions_null" -> Raised("TypeError")
      [] OTHER -> Raised("AttributeError")

\* The file after save_cache on that cache_data: the sort raises on
\* another shape, inside the try, and nothing is written.
save_cache_on(cache_data, file) ==
    IF cache_data.shape = "cache"
    THEN CacheFile("cache",
                   JsonQuestions(save_cache_list(cache_data.questions)))
    ELSE file

LoadOperations == {"add_qa", "get_exportable_qas", "save_cache"}

LoadCalls ==
    {[n |-> 0, fn |-> "load_cache", file |-> file, then |-> operation] :
        file \in CacheFiles, operation \in LoadOperations}

NotCalled == [raised |-> Absent, value |-> Absent]

InitLoad ==
    /\ questions = <<>>
    /\ disk = <<>>
    /\ now = 1
    /\ ret = None
    /\ call \in LoadCalls
    /\ upserted = [id \in QaIds |-> {}]
    /\ NoProcess

\* QACacheManager(cache_dir) and then the operation, when __init__ returns.
LoadCall ==
    /\ call.n = 0
    /\ call.fn = "load_cache"
    /\ LET loaded == load_cache_data(call.file)
           cache_data == loaded.value
       IN  ret' =
             [load |-> loaded,
              result |->
                 IF loaded.raised # None THEN NotCalled
                 ELSE CASE call.then = "add_qa" ->
                               add_qa_on(cache_data,
                                         QaPair("q1", Absent, 1, "easy", 0),
                                         "generated")
                        [] call.then = "get_exportable_qas" ->
                               get_exportable_qas_on(cache_data)
                        [] OTHER -> Returned(None),
              file |->
                 IF loaded.raised = None /\ call.then = "save_cache"
                 THEN save_cache_on(cache_data, call.file)
                 ELSE call.file]
    /\ call' = [call EXCEPT !.n = 1]
    /\ UNCHANGED <<questions, disk, now, upserted, procVars, genVars, valVars>>

NextLoad == LoadCall

SpecLoad == InitLoad /\ [][NextLoad]_vars

-----------------------------------------------------------------------------
(* Claims about the cache manager *)

\* The priority order the specification gives the statuses.
Priority(status) ==
    CASE status = "liked" -> 2
      [] status = "disliked" -> 1
      [] OTHER -> 0

HighestOf(statuses) ==
    CHOOSE s \in statuses : \A t \in statuses : Priority(t) <= Priority(s)

ItemOf(qs, qa_id) == qs[existing_qa_index(qs, qa_id)]

IsAddQaStep == call'.n # call.n

\* C1: after any sequence of add_qa calls on a qa_id with statuses among
\* generated, liked and disliked, the stored status is the highest-priority
\* status that was passed (liked > disliked > generated), whatever the order.
C1_StatusIsHighestUpserted ==
    /\ \A id \in QaIds :
          upserted[id] # {} <=> existing_qa_index(questions, id) # 0
    /\ \A i \in 1..Len(questions) :
          questions[i].status = HighestOf(upserted[questions[i].qa_id])

\* A liked item that was later upserted as disliked and as generated, the
\* last call being the one with status generated.
C1_Witness ==
    /\ call.n = 1
    /\ call.data.status = "generated"
    /\ upserted[call.data.qa_id] = Statuses
    /\ ItemOf(questions, call.data.qa_id).status = "liked"

NoDuplicateIds(qs) ==
    \A i, j \in 1..Len(qs) : qs[i].qa_id = qs[j].qa_id => i = j

\* C2: no two items of the cache share a qa_id, and add_qa returns True
\* exactly when it appended a new item, that is when the qa_id was absent
\* before the call, and False whenever an item with that qa_id existed.
C2_UniqueIdsAndReturn ==
    [][/\ NoDuplicateIds(questions')
       /\ IsAddQaStep =>
            LET id == call'.data.qa_id
                absent == \A i \in 1..Len(questions) : questions[i].qa_id # id
                appended == /\ Len(questions') = Len(questions) + 1
                            /\ SubSeq(questions', 1, Len(questions)) = questions
                            /\ questions'[Len(questions')].qa_id = id
            IN  /\ ret' \in BOOLEAN
                /\ ret' <=> absent
                /\ ret' <=> appended
                /\ ~ret' => Len(questions') = Len(questions)]_vars

\* Two items are cached and the last call, on a qa_id already there,
\* returned False.
C2_Witness ==
    /\ Len(questions) = 2
    /\ call.n = 1
    /\ ret = FALSE
    /\ existing_qa_index(questions, call.data.qa_id) # 0

\* The fields add_qa stores, compared between a stored item and a payload.
SameStoredFields(item, data) ==
    /\ item.question_text = data.question_text
    /\ item.answer_text = data.answer_text
    /\ item.evidence = data.evidence
    /\ item.conversation_id = data.conversation_id
    /\ item.session_ids = data.session_ids
    /\ item.difficulty = data.difficulty
    /\ item.timestamp = data.timestamp
    /\ item.status = data.status
    /\ item.sql_info = data.sql_info

\* C3: a call on a qa_id whose stored status has strictly higher priority
\* than the incoming one returns False and changes neither an item nor the
\* number of items; any other call on an existing qa_id overwrites the
\* stored fields and status by the incoming ones (and nothing else).
C3_RejectOrOverwrite ==
    [][IsAddQaStep =>
         LET data == call'.data
             i == existing_qa_index(questions, data.qa_id)
         IN  i # 0 =>
               IF Priority(questions[i].status) > Priority(data.status)
               THEN ret' = FALSE /\ questions' = questions
               ELSE /\ ret' = FALSE
                    /\ Len(questions') = Len(questions)
                    /\ SameStoredFields(questions'[i], data)
                    /\ questions'[i].qa_id = data.qa_id
                    /\ \A j \in 1..Len(questions) :
                          j # i => questions'[j] = questions[j]]_vars

\* The last call brought status generated and another payload for a liked
\* item, and was rejected.
C3_Witness ==
    /\ call.n = 1
    /\ ret = FALSE
    /\ call.data.status = "generated"
    /\ existing_qa_index(questions, call.data.qa_id) # 0
    /\ ItemOf(questions, call.data.qa_id).status = "liked"
    /\ ItemOf(questions, call.data.qa_id).answer_text # call.data.answer_text
    /\ ItemOf(questions, call.data.qa_id).sql_info # call.data.sql_info

Occurrences(seq, x) == Cardinality({j \in 1..Len(seq) : seq[j] = x})

\* C4: get_exportable_qas returns exactly the items whose status is liked
\* or generated, each once, and never a disliked item.
C4_ExportFilter ==
    LET e == get_exportable_qas(questions)
    IN  /\ \A i \in 1..Len(questions) :
              Occurrences(e, questions[i]) =
                  IF questions[i].status \in {"liked", "generated"} THEN 1 ELSE 0
        /\ \A j \in 1..Len(e) :
              /\ e[j].status # "disliked"
              /\ \E i \in 1..Len(questions) : questions[i] = e[j]

\* A disliked item precedes an exportable one in the cache.
C4_Witness ==
    /\ Len(questions) = 2
    /\ questions[1].status = "disliked"
    /\ questions[2].status \in {"liked", "generated"}
    /\ Len(get_exportable_qas(questions)) = 1

\* C5 as amended: get_exportable_qas is sorted by difficulty rank ascending
\* (easy, then medium, then hard); items of equal difficulty keep their
\* cache order, which is ascending timestamp whenever save_cache has run
\* since the cache list last changed.
C5_ExportOrderAscending ==
    LET e == get_exportable_qas(questions)
    IN  \A j, k \in 1..Len(e) : j < k =>
          /\ difficulty_rank(e[j].difficulty) <= difficulty_rank(e[k].difficulty)
          /\ e[j].difficulty = e[k].difficulty =>
                /\ existing_qa_index(questions, e[j].qa_id)
                      < existing_qa_index(questions, e[k].qa_id)
                /\ Persisted => e[j].timestamp <= e[k].timestamp

\* An unsaved easy item follows a hard one in the cache: the export puts it
\* first.
C5_Witness ==
    /\ Len(questions) = 2
    /\ ~Persisted
    /\ questions[1].difficulty = "hard" /\ questions[2].difficulty = "easy"
    /\ is_exportable(questions[1]) /\ is_exportable(questions[2])
    /\ get_exportable_qas(questions) = <<questions[2], questions[1]>>

\* C5 as stated: the export is sorted by difficulty descending (hard,
\* medium, easy) and, within equal difficulty, by ascending timestamp,
\* whether or not save_cache has been called since the last add_qa.
C5_ExportOrderDescending ==
    LET e == get_exportable_qas(questions)
    IN  \A j, k \in 1..Len(e) : j < k =>
          /\ difficulty_rank(e[j].difficulty) >= difficulty_rank(e[k].difficulty)
          /\ e[j].difficulty = e[k].difficulty => e[j].timestamp <= e[k].timestamp

-----------------------------------------------------------------------------
(* Claims about batch_generate *)

\* C6 (fails on the code): a second batch_generate run on the same dataset,
\* cache directory and targets, after a first run that completed, leaves
\* the number of exportable items where the first run left it.
C6_SecondRunAddsNothing ==
    (run = 2 /\ pc = "generated" /\ first_run_exportable >= 0) =>
        Len(get_exportable_qas(questions)) = first_run_exportable

\* C7 (fails on the code): starting from an empty cache, when the quota
\* loop of a pair with target T ends, the Generator has been invoked at
\* least T times and the cache holds at least T items of that difficulty
\* and conversation with status generated or liked.
C7_QuotaReached ==
    (run = 1 /\ pc = "pair_end") =>
        LET target == difficulty_counts[Pairs[pair].difficulty]
        IN  /\ invocations >= target
            /\ cached_count(questions, Pairs[pair].conversation.id,
                            Pairs[pair].difficulty) >= target

-----------------------------------------------------------------------------
(* Claims about validate_qas *)

SkippedStatuses ==
    {"skipped", "sql_skipped", "sql_skipped_no_conversation",
     "sql_skipped_no_sessions"}

\* The item names a conversation the dataset lacks, or a session its
\* conversation lacks.
MissingContext(qa) ==
    LET c == relevant_conversation(qa.conversation_id)
    IN  \/ c = 0
        \/ \E k \in 1..Len(qa.session_ids) :
              \A n \in 1..Len(dataset[c].sessions) :
                 dataset[c].sessions[n].id # qa.session_ids[k]

\* C8 (fails on the code): for an exportable item whose conversation is not
\* in the dataset, or one of whose session ids is no session of it,
\* validate_qas completes without raising and leaves the validation status
\* skipped in the item's sql_info.
C8_MissingContextIsSkipped ==
    /\ pc # "raised"
    /\ pc = "validated" =>
          \A i \in 1..Len(questions) :
             (is_exportable(questions[i]) /\ MissingContext(questions[i])) =>
                 questions[i].sql_info.sql_status \in SkippedStatuses

SameButSqlInfo(old, new) ==
    /\ new.status = old.status
    /\ new.question_text = old.question_text
    /\ new.answer_text = old.answer_text
    /\ new.evidence = old.evidence
    /\ new.conversation_id = old.conversation_id
    /\ new.session_ids = old.session_ids
    /\ new.difficulty = old.difficulty
    /\ new.timestamp = old.timestamp

\* C9: a step of validate_qas changes, of the item it validates, neither
\* the status nor question_text, answer_text, evidence, conversation_id,
\* session_ids, difficulty or timestamp; when it writes the validation
\* record back through add_qa the item differs from before in sql_info
\* alone; no other item changes and no item is added or removed.
C9_ValidationKeepsItem ==
    [][pc = "validating" =>
         /\ Len(questions') = Len(questions)
         /\ \A i \in 1..Len(questions) :
               LET old == questions[i]
                   k == existing_qa_index(questions', old.qa_id)
               IN  /\ k # 0
                   /\ SameButSqlInfo(old, questions'[k])
                   /\ pc' # "raised" =>
                         questions'[k] = [old EXCEPT !.sql_info = questions'[k].sql_info]
                   /\ (vi <= Len(to_validate) /\ old.qa_id # to_validate[vi]) =>
                         questions'[k] = old]_vars

\* A liked item, stored before the present second, carries the record of a
\* validation that has gone through the model.
C9_Witness ==
    \E i \in 1..Len(questions) :
       /\ questions[i].status = "liked"
       /\ questions[i].sql_info.sql_status = "failed"
       /\ questions[i].qa_id \in model_calls
       /\ questions[i].timestamp < now
       /\ Len(questions) = 2

\* C10 (fails on the code): an item whose recorded validation status is
\* match or skipped (the outcome recorded for sessions without tables
\* included) is left out of the set a later validate_qas run validates,
\* and no model call is made for it.
C10_NoResubmission ==
    pc = "validating" =>
       /\ \A k \in vi..Len(to_validate) :
             ItemOf(questions, to_validate[k]).sql_info.sql_status
                 \notin {"match", "skipped", "sql_skipped"}
       /\ \A id \in model_calls :
             \E k \in 1..Len(to_validate) : k < vi /\ to_validate[k] = id

-----------------------------------------------------------------------------
(* Claims about the Validator and validate_and_correct *)

RECURSIVE CountIn(_, _)
CountIn(x, seq) ==
    IF seq = <<>> THEN 0
    ELSE (IF Head(seq) = x THEN 1 ELSE 0) + CountIn(x, Tail(seq))

Elements(seq) == {seq[k] : k \in 1..Len(seq)}

MultisetEqual(a, b) ==
    \A x \in Elements(a) \cup Elements(b) : CountIn(x, a) = CountIn(x, b)

\* The claimed answer agrees with the derived scalar.
AnswerAgrees(qa, derived) ==
    10 * qa.answer_text = derived.answer_sql.tenths /\ derived.answer_sql.nano = 0

\* The claimed evidence agrees with the derived evidence rows.
EvidenceAgrees(qa, derived) == MultisetEqual(qa.evidence.rows, derived.rows)

\* C11 (fails on the code): when the two derived queries of an item parse
\* and execute, the status validate_and_correct records is match exactly
\* when answer and evidence both agree with what the queries return,
\* evidence_not_match or answer_not_match when only that one differs, and
\* both joined by "; " when both differ.
C11_StatusFollowsComparison ==
    (derivation # NoDerivation /\ derivation.derived.executes) =>
        LET qa == ItemOf(questions, derivation.qa_id)
        IN  qa.sql_info.sql_status =
                compared_status(AnswerAgrees(qa, derivation.derived),
                                EvidenceAgrees(qa, derivation.derived))

\* An operand float() takes: a number, or a string whose text is a number.
IsNumeric(a) ==
    \/ a.kind \in {"int", "float"}
    \/ a.kind = "str" /\ a.body \in {"5", "5.0", "5.1", "0"}

NormalizedTuple(t) == [t EXCEPT !.value = PyFloat(@.tenths, @.nano)]

NormalizedList(seq) == [k \in 1..Len(seq) |-> NormalizedTuple(seq[k])]

\* C13 (fails on the code): compare_evidence on claimed 5-tuples and the
\* rows of the evidence query returns true iff the two sides are equal as
\* multisets after normalization (numeric fields as floats).
C13_EvidenceMultisetEquality ==
    (call.n = 1 /\ call.fn = "compare_evidence") =>
        ret = Returned(MultisetEqual(NormalizedList(call.llm_evidence),
                                     NormalizedList(call.sql_evidence_raw)))

\* The derivation gives no pair of statements, or they do not run.
DerivationFails(derived) ==
    \/ derived.response = None
    \/ ~derived.sql_answer
    \/ ~derived.sql_evidence
    \/ ~derived.executes

\* C14: when the model's response lacks the SQL_ANSWER or the SQL_EVIDENCE
\* statement, or a derived query fails to execute, the validation step does
\* not raise: the record with status failed and a non-empty error message
\* is on the item in memory and in the cache file, and validate_qas is at
\* the next item.
C14_FailedDerivationIsRecorded ==
    [][(pc = "validating" /\ derivation' # derivation
            /\ DerivationFails(derivation'.derived)) =>
         /\ pc' = "validating"
         /\ vi' = vi + 1
         /\ disk' = JsonQuestions(questions')
         /\ LET sql_info == ItemOf(questions', derivation'.qa_id).sql_info
            IN  /\ sql_info.sql_status = "failed"
                /\ sql_info.error \notin {None, Absent, "", "<>"}]_vars

\* The response for the first of two items had no SQL_EVIDENCE statement:
\* the item is recorded as failed and the loop is at the second item.
C14_Witness ==
    /\ pc = "validating"
    /\ Len(to_validate) = 2
    /\ vi = 2
    /\ derivation # NoDerivation
    /\ derivation.qa_id = to_validate[1]
    /\ derivation.derived.response = "text"
    /\ ~derivation.derived.sql_evidence
    /\ ItemOf(questions, to_validate[1]).sql_info =
           [sql_status |-> "failed", error |-> "<NameError>"]

-----------------------------------------------------------------------------
(* Claims about the generation attempt *)

\* C15 (fails on the code): no failure of one generation attempt (a model
\* call that raises, a context sample that cannot be drawn) leaves
\* batch_generate: the process never ends in main's except clause, and
\* when it ends batch_generate has gone through every pair.
C15_NoFailurePropagates ==
    /\ pc # "raised"
    /\ (pc = "generated") => pair > Len(Pairs)

\* C17 (fails on the code): a generation attempt for a conversation with
\* fewer than min_sessions sessions is a rejection: it raises nothing and
\* leaves the cache as it was.
C17_ShortConversationIsRejected ==
    [][(pc = "loop" /\ invocations' # invocations
           /\ Len(Pairs[pair].conversation.sessions) < min_sessions) =>
         /\ pc' # "raised"
         /\ rejected' = rejected + 1
         /\ generated_count' = generated_count
         /\ questions' = questions
         /\ disk' = disk]_vars

\* C18 (fails on the code): for a response that is no JSON object, or a
\* JSON object without the question key or without the answer key,
\* _parse_llm_response yields no item.
C18_MissingKeyIsRejected ==
    (call.n = 1 /\ call.fn = "_parse_llm_response") =>
        ((call.response.kind # "object"
             \/ call.response.keys # {"question", "answer"})
         => ret = NotParsed)

\* C19 (fails on the code): the evidence of a parsed response has one
\* entry for each entry of the response's evidence array.
C19_NoEvidenceEntryDropped ==
    (call.n = 1 /\ call.fn = "_parse_llm_response" /\ ret.parsed) =>
        Len(ret.evidence.rows) = Len(call.response.evidence)

\* C16 (fails on the code): a context window is k distinct sessions of the
\* conversation, min_sessions <= k <= min(max_sessions, n), and the ids are
\* listed in the order of the session numbers.
C16_WindowInSessionNumberOrder ==
    (call.n = 1 /\ call.fn = "sample" /\ ret.raised = None) =>
        LET ids == ret.value
        IN  /\ Len(ids) \in call.min_sessions..
                                Min(call.max_sessions, call.sessions)
            /\ \A i \in 1..Len(ids) : ids[i].number \in 1..call.sessions
            /\ \A i, j \in 1..Len(ids) : i < j => ids[i] # ids[j]
            /\ \A i \in 1..(Len(ids) - 1) :
                   ids[i].number < ids[i + 1].number

\* C20 (fails on the code): when the first process has been interrupted,
\* the cache the next process loads holds every item add_qa was called
\* for, except at most the one whose save_cache had not returned.
C20_InterruptionLosesAtMostInFlight ==
    [][(pc = "boot" /\ pc' = "loop" /\ run = 1) =>
          \A id \in QaIds :
              (upserted[id] # {} /\ ~(call.n = 1 /\ call.qa_id = id))
                  => existing_qa_index(questions', id) # 0]_vars

\* C21 (fails on the code): on a missing or corrupt cache file the
\* constructor does not raise and leaves an empty cache, and the
\* operation called next does not raise.
C21_CorruptFileIsEmptyCache ==
    (call.n = 1 /\ call.fn = "load_cache" /\ call.file.kind # "cache") =>
        /\ ret.load.raised = None
        /\ ret.load.value = initialize_empty_cache_data
        /\ ret.result.raised = None

\* C22 (fails on the code): while a process runs, no qa_id of the
\* in-memory cache disappears from it, whether its saves succeed or fail.
C22_NoItemLeavesMemory ==
    [][(pc # "boot") =>
          \A id \in QaIds :
              existing_qa_index(questions, id) # 0
                  => existing_qa_index(questions', id) # 0]_vars

\* C23 (fails on the code): when the tables of an item have been created,
\* every table of the validator's database is a table of that item.
C23_RelationHoldsOnlyOwnTables ==
    (call.fn = "validate_qas" /\ call.n >= 1 /\ call.items[call.n] # <<>>) =>
        \A i \in 1..Len(sql_engine) :
            \E j \in 1..Len(call.items[call.n]) :
                call.items[call.n][j] = sql_engine[i]

\* The validation statuses, in the spellings of the code.
ValidationStatuses ==
    {"not yet", "not_yet", "match", "answer_not_match", "evidence_not_match",
     "answer_not_match; evidence_not_match", "failed"} \cup SkippedStatuses

\* C24 (fails on the code): the sql_info of every item of the cache
\* carries a validation status, and it is one of the statuses above.
C24_EveryRecordHasStatus ==
    \A i \in 1..Len(questions) :
        questions[i].sql_info.sql_status \in ValidationStatuses

\* The names the lines of one kind carry for a session and a table, in the
\* order of the context.
RECURSIVE NamesIn(_, _, _, _)
NamesIn(lines, kind, session, table) ==
    IF lines = <<>> THEN <<>>
    ELSE (IF /\ Head(lines).kind = kind
             /\ Head(lines).session = session
             /\ Head(lines).table = table
          THEN <<Head(lines).what>> ELSE <<>>)
             \o NamesIn(Tail(lines), kind, session, table)

\* C25 (fails on the code): the context has a line for every turn of every
\* selected session and a line for every row of each of its tables, in
\* their order.
C25_ContextIsComplete ==
    (call.n = 1 /\ call.fn = "_build_session_context") =>
        \A k \in 1..Len(call.sessions) :
            LET session == call.sessions[k]
            IN  /\ NamesIn(ret, "turn", session.id, 0) = session.turns
                /\ \A idx \in 1..Len(session.tables) :
                       NamesIn(ret, "row", session.id, idx - 1)
                           = session.tables[idx].rows

\* C26 (fails on the code): when validate_qas has returned, every item it
\* selected, the exportable items not yet recorded as match or skipped,
\* carries a validation outcome.
C26_EverySelectedItemHasOutcome ==
    pc = "validated" =>
        \A k \in 1..Len(to_validate) :
            ItemOf(questions, to_validate[k]).sql_info.sql_status
                \in ValidationStatuses \ {"not yet", "not_yet"}

\* The status the mode and the reviewer's key call for, Absent for none.
ChosenStatus ==
    IF ~is_step THEN "generated"
    ELSE IF call.char = "y" THEN "liked"
    ELSE IF call.char = "n" THEN "disliked"
    ELSE IF call.char = "r" THEN Absent
    ELSE "generated"

\* C27: an attempt whose response parses has the effect the mode and the
\* key fix: with no status chosen ('r') the cache is unchanged in memory
\* and on disk and the count stays; else the item is in the cache, with
\* the chosen status unless the stored one has priority, every other item
\* is as before, the file holds the list, and the count rises by one
\* exactly for generated and liked.
C27_AttemptEffect ==
    [][(pc = "loop" /\ invocations' # invocations
           /\ call.fn = "_generate_single_qa"
           /\ call.response.kind = "object") =>
         LET id == generate_qa_id([question_text |-> call.response.question])
             old == existing_qa_index(questions, id)
             new == existing_qa_index(questions', id)
         IN  IF ChosenStatus = Absent
             THEN /\ questions' = questions
                  /\ disk' = disk
                  /\ generated_count' = generated_count
             ELSE /\ new # 0
                  /\ questions'[new].status =
                        IF old = 0 THEN ChosenStatus
                        ELSE HighestOf({questions[old].status, ChosenStatus})
                  /\ Len(questions') = Len(questions) + (IF old = 0 THEN 1 ELSE 0)
                  /\ \A i \in 1..Len(questions) :
                        questions[i].qa_id # id =>
                            \E j \in 1..Len(questions') :
                                questions'[j] = questions[i]
                  /\ disk' = JsonQuestions(questions')
                  /\ generated_count' =
                        IF ChosenStatus \in {"generated", "liked"}
                        THEN generated_count + 1 ELSE generated_count]_vars

\* In step mode the key 'r' was given for a parsed response: an attempt
\* has been made and rejected, and nothing is in the cache.
C27_Witness ==
    /\ call.fn = "_generate_single_qa"
    /\ is_step
    /\ call.char = "r"
    /\ call.response.kind = "object"
    /\ invocations = 1
    /\ rejected = 1
    /\ questions = <<>>
    /\ disk = <<>>

\* The exportable items the cache holds for the pair batch_generate is at.
ExportableForPair ==
    Cardinality({i \in 1..Len(questions) :
        /\ questions[i].conversation_id = Pairs[pair].conversation.id
        /\ questions[i].difficulty = Pairs[pair].difficulty
        /\ is_exportable(questions[i])})

C29_OutcomeSurvivesRegeneration ==
    [][(IsAddQaStep
          /\ call'.data.status = "generated"
          /\ call'.data.sql_info = EmptyDict
          /\ existing_qa_index(questions, call'.data.qa_id) # 0
          /\ ItemOf(questions, call'.data.qa_id).sql_info.sql_status
                 = "match") =>
         LET old == ItemOf(questions, call'.data.qa_id)
             new == ItemOf(questions', call'.data.qa_id)
         IN  /\ new.sql_info = old.sql_info
             /\ new.conversation_id = old.conversation_id
             /\ new.difficulty = old.difficulty]_vars

-----------------------------------------------------------------------------
(* SessionSimulator.generate_dialog on the dialog cache of one session.    *)
(* disk is the cache file <session_hash>.json, call the arguments and the  *)
(* simulator's memory (current_state, current_dialog, current_turn) with   *)
(* its history, ret the dialog returned, run the number of calls made for  *)
(* the session, pc the position of the call, is_step the pause flag.       *)

MaxTurns == 2
MaxEdits == 1

EvidenceNames == <<"e1", "e2">>
MentionNames == {"e1", "e2", "e3"}

\* An evidence tuple, and what json.dump and json.load make of it.
DialogEvidence(name) == [type |-> "tuple", of |-> name]
JsonArray(name) == [type |-> "list", of |-> name]

DialogEvidences ==
    {<<DialogEvidence("e1")>>,
     <<DialogEvidence("e1"), DialogEvidence("e2")>>,
     <<DialogEvidence("e2"), DialogEvidence("e1")>>}

RECURSIVE CountOf(_, _)
CountOf(evidences, name) ==
    IF evidences = <<>> THEN 0
    ELSE (IF Head(evidences).of = name THEN 1 ELSE 0)
         + CountOf(Tail(evidences), name)

RECURSIVE sorted_evidences(_, _)
sorted_evidences(evidences, k) ==
    IF k > Len(EvidenceNames) THEN ""
    ELSE (IF CountOf(evidences, EvidenceNames[k]) = 0 THEN ""
          ELSE IF CountOf(evidences, EvidenceNames[k]) = 1
               THEN EvidenceNames[k]
               ELSE EvidenceNames[k] \o EvidenceNames[k])
         \o sorted_evidences(evidences, k + 1)

\* DialogCacheManager._generate_cache_key: the digest of the sorted
\* evidences and the persona (one persona here).
generate_cache_key(evidences) ==
    "md5(" \o sorted_evidences(evidences, 1) \o ")"

\* DialogCacheManager._initialize_empty_cache_data
EmptySessionState ==
    [session_hash |-> "",
     evidences |-> <<>>,
     turn_count |-> 0,
     remaining_evidences |-> <<>>]

empty_dialog_cache == [state |-> EmptySessionState, dialog |-> <<>>]

NoDialogFile == [exists |-> FALSE, data |-> empty_dialog_cache]

\* json.dump of the cache data: tuples are written as arrays.
json_evidences(evidences) ==
    [k \in 1..Len(evidences) |-> JsonArray(evidences[k].of)]

json_dump_dialog(data) ==
    [exists |-> TRUE,
     data |-> [state |->
                  [data.state EXCEPT
                     !.evidences = json_evidences(@),
                     !.remaining_evidences = json_evidences(@)],
               dialog |-> data.dialog]]

\* BaseCacheManager.load_cache of DialogCacheManager: the file's data, or
\* the empty cache when there is no file.
load_dialog_cache(file) ==
    IF file.exists THEN file.data ELSE empty_dialog_cache

\* generate_dialog's conversion of the loaded lists back to tuples.
tuples_of(evidences) ==
    [k \in 1..Len(evidences) |->
        IF evidences[k].type = "list" THEN DialogEvidence(evidences[k].of)
        ELSE evidences[k]]

loaded_state(file) ==
    [load_dialog_cache(file).state EXCEPT
        !.evidences = tuples_of(@),
        !.remaining_evidences = tuples_of(@)]

loaded_dialog(file) == load_dialog_cache(file).dialog

Greeting == [id |-> 1, speaker |-> "Assistant", content |-> "greeting"]

\* SessionSimulator._filter_remaining_evidences: the remaining evidences
\* that are not in the set of tuples the reply marks as used.
filter_remaining_evidences(remaining_evidences, mentioned) ==
    SelectSeq(remaining_evidences,
              LAMBDA ev : ~(ev.type = "tuple" /\ ev.of \in mentioned))

\* _summarize_chat_history calls the model unless the history is the
\* greeting alone.
summary_calls(dialog) ==
    IF dialog = <<>> \/ dialog = <<Greeting>> THEN 0 ELSE 1

NoDialogCall ==
    [fn |-> "generate_dialog", evidences |-> <<>>, max_turns |-> 0,
     current_turn |-> 0, state |-> EmptySessionState, dialog |-> <<>>,
     made |-> 0, turns |-> 0, edits |-> 0,
     resumed |-> NoDialogFile, saved |-> NoDialogFile]

InitDialog ==
    /\ questions = <<>>
    /\ disk = NoDialogFile
    /\ now = 1
    /\ ret = None
    /\ call = NoDialogCall
    /\ upserted = [id \in QaIds |-> {}]
    /\ is_step \in BOOLEAN
    /\ dataset = Dataset
    /\ partial = FALSE
    /\ pc = "idle"
    /\ run = 0
    /\ pair = 0
    /\ generated_count = 0
    /\ invocations = 0
    /\ rejected = 0
    /\ first_run_exportable = -1
    /\ to_validate = <<>>
    /\ vi = 0
    /\ model_calls = {}
    /\ derivation = NoDerivation
    /\ sql_engine = <<>>

dialogFrame ==
    <<questions, now, upserted, dataset, partial, genVars, valVars>>

\* generate_dialog up to its loop: the cache is loaded, and a new session
\* is created and saved when the cache holds none.
GenerateDialogBegin ==
    /\ pc \in {"idle", "returned"}
    /\ run < MaxRuns
    /\ \E evidences \in DialogEvidences, max_turns \in 0..MaxTurns,
          step \in BOOLEAN :
         /\ disk.exists =>
              disk.data.state.session_hash = generate_cache_key(evidences)
         /\ is_step' = step
         /\ LET state == loaded_state(disk)
                fresh == state.session_hash = ""
                new_state ==
                    [session_hash |-> generate_cache_key(evidences),
                     evidences |-> evidences,
                     turn_count |-> 0,
                     remaining_evidences |-> evidences]
                current_state == IF fresh THEN new_state ELSE state
                current_dialog ==
                    IF fresh THEN <<Greeting>> ELSE loaded_dialog(disk)
                saved == json_dump_dialog([state |-> current_state,
                                           dialog |-> current_dialog])
           IN  /\ disk' = IF fresh THEN saved ELSE disk
               /\ call' = [fn |-> "generate_dialog",
                           evidences |-> evidences,
                           max_turns |-> max_turns,
                           current_turn |-> current_state.turn_count,
                           state |-> current_state,
                           dialog |-> current_dialog,
                           made |-> 0, turns |-> 0, edits |-> 0,
                           resumed |-> disk,
                           saved |-> IF fresh THEN saved ELSE call.saved]
    /\ run' = run + 1
    /\ ret' = None
    /\ pc' = "loop"
    /\ UNCHANGED dialogFrame

\* One pass of the loop body from the check of the remaining evidences:
\* the loop breaks when none remains, else the user's and the assistant's
\* replies are appended, the evidences they mark are removed, the turn is
\* counted and the cache is saved.
LoopBody(state, dialog) ==
    IF state.remaining_evidences = <<>>
    THEN /\ ret' = dialog
         /\ pc' = "returned"
         /\ call' = [call EXCEPT !.state = state, !.dialog = dialog]
         /\ disk' = disk
    ELSE \E by_user \in SUBSET MentionNames,
            by_assistant \in SUBSET MentionNames :
           LET with_user ==
                   Append(dialog, [id |-> Len(dialog) + 1,
                                   speaker |-> "User",
                                   content |-> "reply"])
               with_assistant ==
                   Append(with_user, [id |-> Len(with_user) + 1,
                                      speaker |-> "Assistant",
                                      content |-> "reply"])
               after_user ==
                   filter_remaining_evidences(state.remaining_evidences,
                                              by_user)
               after_assistant ==
                   filter_remaining_evidences(after_user, by_assistant)
               new_state ==
                   [state EXCEPT
                      !.remaining_evidences = after_assistant,
                      !.turn_count = @ + 1]
               saved == json_dump_dialog([state |-> new_state,
                                          dialog |-> with_assistant])
           IN  /\ call' = [call EXCEPT
                             !.state = new_state,
                             !.dialog = with_assistant,
                             !.current_turn = new_state.turn_count,
                             !.made = @ + 2 + 2 * summary_calls(dialog),
                             !.turns = @ + 1,
                             !.saved = saved]
               /\ disk' = saved
               /\ ret' = ret
               /\ pc' = "loop"

\* The while test, and the pass that follows it when there is no pause.
LoopStep ==
    /\ pc = "loop"
    /\ IF call.current_turn >= call.max_turns
       THEN /\ ret' = call.dialog
            /\ pc' = "returned"
            /\ UNCHANGED <<call, disk>>
       ELSE IF is_step /\ call.current_turn > 0
            THEN /\ pc' = "paused"
                 /\ UNCHANGED <<call, disk, ret>>
            ELSE LoopBody(call.state, call.dialog)
    /\ UNCHANGED <<dialogFrame, is_step, run>>

\* While generate_dialog waits at input(), the operator edits the cache
\* file: the evidences still to be covered are set to a selection of the
\* session's evidences, or the last exchange is struck out together with
\* its turn.
OperatorEdit ==
    /\ pc = "paused"
    /\ call.edits < MaxEdits
    /\ disk.exists
    /\ LET state == disk.data.state
           dialog == disk.data.dialog
       IN  \/ \E keep \in SUBSET (1..Len(state.evidences)) :
                LET selection ==
                      SelectSeq(state.evidences,
                                LAMBDA ev :
                                  \E k \in keep : state.evidences[k] = ev)
                IN  /\ selection # state.remaining_evidences
                    /\ disk' = [disk EXCEPT
                          !.data.state.remaining_evidences = selection]
           \/ /\ Len(dialog) >= 3
              /\ state.turn_count > 0
              /\ disk' = [disk EXCEPT
                     !.data.dialog = SubSeq(dialog, 1, Len(dialog) - 2),
                     !.data.state.turn_count = @ - 1]
    /\ call' = [call EXCEPT !.edits = @ + 1]
    /\ UNCHANGED <<dialogFrame, is_step, run, pc, ret>>

\* input() returns: the cache is loaded again from the file, and the pass
\* goes on with the state and the dialog of the file.
ContinueAfterPause ==
    /\ pc = "paused"
    /\ LoopBody(loaded_state(disk), loaded_dialog(disk))
    /\ UNCHANGED <<dialogFrame, is_step, run>>

\* The process is stopped between two saves.
StopDialog ==
    /\ pc \in {"loop", "paused"}
    /\ pc' = "idle"
    /\ UNCHANGED <<dialogFrame, is_step, run, call, disk, ret>>

NextDialog ==
    \/ GenerateDialogBegin
    \/ LoopStep
    \/ OperatorEdit
    \/ ContinueAfterPause
    \/ StopDialog

SpecDialog == InitDialog /\ [][NextDialog]_vars

-----------------------------------------------------------------------------
(* The dialog simulator's saved states *)

RECURSIVE IsSubList(_, _)
IsSubList(sub, full) ==
    IF sub = <<>> THEN TRUE
    ELSE IF full = <<>> THEN FALSE
    ELSE IF Head(sub).of = Head(full).of
         THEN IsSubList(Tail(sub), Tail(full))
         ELSE IsSubList(sub, Tail(full))

IsDialogPrefix(short, long) ==
    /\ Len(short) <= Len(long)
    /\ SubSeq(long, 1, Len(short)) = short

AlternatingDialog(dialog) ==
    \A k \in 1..Len(dialog) :
        /\ dialog[k].id = k
        /\ dialog[k].speaker = IF k % 2 = 1 THEN "Assistant" ELSE "User"

\* A step in which generate_dialog writes the cache file.
IsDialogSave == disk' # disk /\ call'.edits = call.edits

SavedStateInvariant ==
    LET state == disk'.data.state
        dialog == disk'.data.dialog
    IN  /\ 0 <= state.turn_count
        /\ state.turn_count <= call'.max_turns
        /\ Len(dialog) = 1 + 2 * state.turn_count
        /\ AlternatingDialog(dialog)
        /\ IsSubList(state.remaining_evidences, state.evidences)
        /\ call.saved.exists =>
             IsSubList(state.remaining_evidences,
                       call.saved.data.state.remaining_evidences)

ResumedWithNothingToDo ==
    /\ call.resumed.exists
    /\ \/ call.resumed.data.state.turn_count >= call.max_turns
       \/ call.resumed.data.state.remaining_evidences = <<>>

\* C30 (fails on the code): every state generate_dialog saves has
\* 0 <= turn_count <= max_turns, a dialog of 1 + 2 * turn_count records
\* with ids 1..len and speakers alternating from Assistant, and remaining
\* evidences that are a sub-list of the session's evidences and of the
\* remaining evidences saved before; a call makes at most max_turns turns;
\* a call that resumes a saved state returns a dialog that starts with the
\* saved dialog, and calls no model when the saved state is at max_turns
\* or has no remaining evidence.
C30_DialogInvariants ==
    /\ [][IsDialogSave => SavedStateInvariant]_vars
    /\ [](call.turns <= call.max_turns)
    /\ [](pc = "returned" /\ call.resumed.exists =>
              IsDialogPrefix(call.resumed.data.dialog, ret))
    /\ [](pc = "returned" /\ ResumedWithNothingToDo => call.made = 0)

=============================================================================
